---- MODULE Spec2Model ----
(***************************************************************************)
(* A model of the turn-processing policy of the TapCanvas agent backend    *)
(* (apps/ai-fullstack/backend/src/agent/graph.py): the role/tool gating,   *)
(* the knowledge-base result normaliser, the safety sanitizers and the     *)
(* post-processing chain of finalize_answer.                               *)
(*                                                                         *)
(* Text is modelled as a sequence of tokens.  TLA+ strings are ASCII, so a *)
(* CJK character c is written "uXXXX" (its code point); the sanitizer      *)
(* tables are modelled character by character.  The keyword tests of       *)
(* finalize_answer are substring tests on token sequences.                 *)
(***************************************************************************)
EXTENDS Integers, Sequences, FiniteSets, TLC

VARIABLES
  call,      \* the last call of a pure helper: [fn, ...arguments, ...result]
  thread,    \* the state kept between turns (OverallState fields read by finalize_answer)
  turn,      \* the inputs of the last finalize_answer call (user text, model output, ...)
  out        \* what the last finalize_answer call returned (the outgoing message)

vars == <<call, thread, turn, out>>

-----------------------------------------------------------------------------
(* Text helpers: Python's str operations on token sequences.               *)

\* the token of a whitespace character
WS == " "

\* The value None / a missing key of a text field.
NoText == <<"<None>">>

IsStr(t) == t # NoText

Min(a, b) == IF a < b THEN a ELSE b

\* s[i:i+len(k)] == k
IsAt(s, k, i) ==
  /\ i >= 1
  /\ i + Len(k) - 1 <= Len(s)
  /\ \A j \in 1..Len(k) : s[i + j - 1] = k[j]

\* k in s   (k non-empty)
Contains(s, k) == \E i \in 1..Len(s) : IsAt(s, k, i)

\* any(k in s for k in keys)
ContainsAny(s, keys) == \E k \in keys : Contains(s, k)

\* s[:n]
Take(s, n) == SubSeq(s, 1, Min(Len(s), n))

RECURSIVE ReplaceFrom(_, _, _, _)
ReplaceFrom(s, k, v, i) ==
  IF i > Len(s) THEN <<>>
  ELSE IF IsAt(s, k, i) THEN v \o ReplaceFrom(s, k, v, i + Len(k))
  ELSE <<s[i]>> \o ReplaceFrom(s, k, v, i + 1)

\* s.replace(k, v): every non-overlapping occurrence, left to right
Replace(s, k, v) == IF Contains(s, k) THEN ReplaceFrom(s, k, v, 1) ELSE s

\* the whitespace tokens: a blank and a line break
Whitespace == {WS, "\n"}

RECURSIVE LStrip(_)
LStrip(s) == IF s # <<>> /\ Head(s) \in Whitespace THEN LStrip(Tail(s)) ELSE s

RECURSIVE RStrip(_)
RStrip(s) ==
  IF s # <<>> /\ s[Len(s)] \in Whitespace THEN RStrip(SubSeq(s, 1, Len(s) - 1)) ELSE s

\* s.strip()
Strip(s) == LStrip(RStrip(s))

\* isinstance(t, str) and t.strip()
NonBlank(t) == IsStr(t) /\ Strip(t) # <<>>

-----------------------------------------------------------------------------
(* Safety sanitizers (nested in finalize_answer).                          *)

\* replacements of _sanitize_sexual_text, in dict order: << key, value >>
SexualReplacements ==
  <<
    \* "无码" -> "（不展示细节）"
    << <<"u65E0", "u7801">>,
       <<"uFF08", "u4E0D", "u5C55", "u793A", "u7EC6", "u8282", "uFF09">> >>,
    \* "露点" -> "穿着完整（不露骨）"
    << <<"u9732", "u70B9">>,
       <<"u7A7F", "u7740", "u5B8C", "u6574", "uFF08", "u4E0D", "u9732", "u9AA8", "uFF09">> >>,
    \* "裸体" -> "穿着完整（不露骨）"
    << <<"u88F8", "u4F53">>,
       <<"u7A7F", "u7740", "u5B8C", "u6574", "uFF08", "u4E0D", "u9732", "u9AA8", "uFF09">> >>,
    \* "性交" -> "亲密互动（不露骨）"
    << <<"u6027", "u4EA4">>,
       <<"u4EB2", "u5BC6", "u4E92", "u52A8", "uFF08", "u4E0D", "u9732", "u9AA8", "uFF09">> >>,
    \* "做爱" -> "亲密互动（不露骨）"
    << <<"u505A", "u7231">>,
       <<"u4EB2", "u5BC6", "u4E92", "u52A8", "uFF08", "u4E0D", "u9732", "u9AA8", "uFF09">> >>,
    \* "口交" -> "亲密互动（不露骨）"
    << <<"u53E3", "u4EA4">>,
       <<"u4EB2", "u5BC6", "u4E92", "u52A8", "uFF08", "u4E0D", "u9732", "u9AA8", "uFF09">> >>,
    \* "肛交" -> "亲密互动（不露骨）"
    << <<"u809B", "u4EA4">>,
       <<"u4EB2", "u5BC6", "u4E92", "u52A8", "uFF08", "u4E0D", "u9732", "u9AA8", "uFF09">> >>,
    \* "强奸" -> "性侵（不展示细节，仅点到为止）"
    << <<"u5F3A", "u5978">>,
       <<"u6027", "u4FB5", "uFF08", "u4E0D", "u5C55", "u793A", "u7EC6", "u8282", "uFF0C", "u4EC5", "u70B9", "u5230", "u4E3A", "u6B62", "uFF09">> >>,
    \* "迷奸" -> "性侵（不展示细节，仅点到为止）"
    << <<"u8FF7", "u5978">>,
       <<"u6027", "u4FB5", "uFF08", "u4E0D", "u5C55", "u793A", "u7EC6", "u8282", "uFF0C", "u4EC5", "u70B9", "u5230", "u4E3A", "u6B62", "uFF09">> >>,
    \* "porn" -> "（不露骨）"
    << <<"p", "o", "r", "n">>,
       <<"uFF08", "u4E0D", "u9732", "u9AA8", "uFF09">> >>
  >>

\* replacements of _sanitize_violent_text, in dict order: << key, value >>
ViolentReplacements ==
  <<
    \* "爆头" -> "强烈冲击（不展示细节）"
    << <<"u7206", "u5934">>,
       <<"u5F3A", "u70C8", "u51B2", "u51FB", "uFF08", "u4E0D", "u5C55", "u793A", "u7EC6", "u8282", "uFF09">> >>,
    \* "脑浆" -> "冲击性的后果（不展示细节）"
    << <<"u8111", "u6D46">>,
       <<"u51B2", "u51FB", "u6027", "u7684", "u540E", "u679C", "uFF08", "u4E0D", "u5C55", "u793A", "u7EC6", "u8282", "uFF09">> >>,
    \* "断肢" -> "受伤倒下（不展示细节）"
    << <<"u65AD", "u80A2">>,
       <<"u53D7", "u4F24", "u5012", "u4E0B", "uFF08", "u4E0D", "u5C55", "u793A", "u7EC6", "u8282", "uFF09">> >>,
    \* "肢解" -> "镜头切走（用暗示表达）"
    << <<"u80A2", "u89E3">>,
       <<"u955C", "u5934", "u5207", "u8D70", "uFF08", "u7528", "u6697", "u793A", "u8868", "u8FBE", "uFF09">> >>,
    \* "开膛" -> "镜头切走（用暗示表达）"
    << <<"u5F00", "u819B">>,
       <<"u955C", "u5934", "u5207", "u8D70", "uFF08", "u7528", "u6697", "u793A", "u8868", "u8FBE", "uFF09">> >>,
    \* "剖腹" -> "镜头切走（用暗示表达）"
    << <<"u5256", "u8179">>,
       <<"u955C", "u5934", "u5207", "u8D70", "uFF08", "u7528", "u6697", "u793A", "u8868", "u8FBE", "uFF09">> >>,
    \* "内脏" -> "不展示细节"
    << <<"u5185", "u810F">>,
       <<"u4E0D", "u5C55", "u793A", "u7EC6", "u8282">> >>,
    \* "肠子" -> "不展示细节"
    << <<"u80A0", "u5B50">>,
       <<"u4E0D", "u5C55", "u793A", "u7EC6", "u8282">> >>,
    \* "碎尸" -> "不展示细节"
    << <<"u788E", "u5C38">>,
       <<"u4E0D", "u5C55", "u793A", "u7EC6", "u8282">> >>,
    \* "割喉" -> "镜头切走（用暗示表达）"
    << <<"u5272", "u5589">>,
       <<"u955C", "u5934", "u5207", "u8D70", "uFF08", "u7528", "u6697", "u793A", "u8868", "u8FBE", "uFF09">> >>,
    \* "斩首" -> "镜头切走（用暗示表达）"
    << <<"u65A9", "u9996">>,
       <<"u955C", "u5934", "u5207", "u8D70", "uFF08", "u7528", "u6697", "u793A", "u8868", "u8FBE", "uFF09">> >>,
    \* "砍头" -> "镜头切走（用暗示表达）"
    << <<"u780D", "u5934">>,
       <<"u955C", "u5934", "u5207", "u8D70", "uFF08", "u7528", "u6697", "u793A", "u8868", "u8FBE", "uFF09">> >>,
    \* "喷血" -> "用剪影/反应镜头表达冲击（不展示细节）"
    << <<"u55B7", "u8840">>,
       <<"u7528", "u526A", "u5F71", "slash", "u53CD", "u5E94", "u955C", "u5934", "u8868", "u8FBE", "u51B2", "u51FB", "uFF08", "u4E0D", "u5C55", "u793A", "u7EC6", "u8282", "uFF09">> >>,
    \* "血浆" -> "用光影/音效表达冲击（不展示细节）"
    << <<"u8840", "u6D46">>,
       <<"u7528", "u5149", "u5F71", "slash", "u97F3", "u6548", "u8868", "u8FBE", "u51B2", "u51FB", "uFF08", "u4E0D", "u5C55", "u793A", "u7EC6", "u8282", "uFF09">> >>,
    \* "血肉模糊" -> "画面用遮挡/虚焦表达（不展示细节）"
    << <<"u8840", "u8089", "u6A21", "u7CCA">>,
       <<"u753B", "u9762", "u7528", "u906E", "u6321", "slash", "u865A", "u7126", "u8868", "u8FBE", "uFF08", "u4E0D", "u5C55", "u793A", "u7EC6", "u8282", "uFF09">> >>
  >>

\* for k, v in replacements.items(): out = out.replace(k, v)
RECURSIVE ApplyReplacements(_, _, _)
ApplyReplacements(text, table, i) ==
  IF i > Len(table) THEN text
  ELSE ApplyReplacements(Replace(text, table[i][1], table[i][2]), table, i + 1)

\* A table whose third value ("裸体") re-introduces the earlier key "露点".
SexualReplacementsReintroducing ==
  [SexualReplacements EXCEPT ![3] =
     << <<"u88F8", "u4F53">>, <<"u4E0D", "u9732", "u70B9">> >>]

sanitize_sexual_text_reintroducing(text) ==
  IF ~IsStr(text) \/ Strip(text) = <<>> THEN text
  ELSE ApplyReplacements(text, SexualReplacementsReintroducing, 1)

sanitize_sexual_text(text) ==
  IF ~IsStr(text) \/ Strip(text) = <<>> THEN text
  ELSE ApplyReplacements(text, SexualReplacements, 1)

sanitize_violent_text(text) ==
  IF ~IsStr(text) \/ Strip(text) = <<>> THEN text
  ELSE ApplyReplacements(text, ViolentReplacements, 1)

TableKeys(table) == {table[i][1] : i \in 1..Len(table)}

-----------------------------------------------------------------------------
(* Roles and canvas tools.                                                 *)

ROLE_ALLOWED_CANVAS_TOOLS ==
  [storyboard_artist  |-> {"createNode", "updateNode", "connectNodes", "runNode"},
   character_designer |-> {"createNode", "updateNode", "connectNodes", "runNode"},
   scene_designer     |-> {"createNode", "updateNode", "connectNodes", "runNode"},
   art_director       |-> {},
   screenwriter       |-> {},
   product_designer   |-> {},
   music_director     |-> {},
   magician           |-> {}]

\* The closed role registry of agent.roles (role_map()): the roles of the table above.
RoleRegistry == DOMAIN ROLE_ALLOWED_CANVAS_TOOLS

\* agent.roles.DEFAULT_ROLE_ID: a member of the registry, fixed for the process.
DEFAULT_ROLE_ID == thread.default_role

\* agent.roles.normalize_role_id: unknown ids normalize to the default role.
normalize_role_id(role_id) ==
  IF role_id \in RoleRegistry THEN role_id ELSE DEFAULT_ROLE_ID

\* role_id or DEFAULT_ROLE_ID  ("" stands for every falsy id: None, "")
OrDefaultRole(role_id) == IF role_id = "" THEN DEFAULT_ROLE_ID ELSE role_id

\* The four function tools offered to the model, in list order.
tool_definitions_for_canvas ==
  << [type |-> "function", name |-> "createNode"],
     [type |-> "function", name |-> "updateNode"],
     [type |-> "function", name |-> "connectNodes"],
     [type |-> "function", name |-> "runNode"] >>

\* ROLE_ALLOWED_CANVAS_TOOLS.get(resolved_id, set())
AllowedTools(resolved_id) ==
  IF resolved_id \in DOMAIN ROLE_ALLOWED_CANVAS_TOOLS
  THEN ROLE_ALLOWED_CANVAS_TOOLS[resolved_id] ELSE {}

\* The role filter left out: every definition is offered once the gate is open.
tool_definitions_for_role_unfiltered(role_id, allow_canvas_tools) ==
  IF ~allow_canvas_tools THEN <<>> ELSE tool_definitions_for_canvas

tool_definitions_for_role(role_id, allow_canvas_tools) ==
  IF ~allow_canvas_tools THEN <<>>
  ELSE LET allowed == AllowedTools(normalize_role_id(OrDefaultRole(role_id)))
       IN  IF allowed = {} THEN <<>>
           ELSE SelectSeq(tool_definitions_for_canvas, LAMBDA t : t.name \in allowed)

\* The role filter left out: every proposed call passes once the gate is open.
filter_tool_calls_by_role_unfiltered(tool_calls, role_id, allow_canvas_tools) ==
  IF ~allow_canvas_tools THEN <<>> ELSE tool_calls

filter_tool_calls_by_role(tool_calls, role_id, allow_canvas_tools) ==
  IF ~allow_canvas_tools THEN <<>>
  ELSE LET allowed == AllowedTools(normalize_role_id(OrDefaultRole(role_id)))
       IN  IF allowed = {} THEN <<>>
           ELSE SelectSeq(tool_calls, LAMBDA c : c.name \in allowed)

\* _resolve_role: (validated id, profile); the profile is represented by its id.
resolve_role(role_id) == normalize_role_id(role_id)

-----------------------------------------------------------------------------
(* Knowledge-base result normaliser.                                       *)
(* A response object is a record                                           *)
(*   [isDict, answer, output, response : text or NoText,                   *)
(*    sources, results, documents : a list of items, or NoList when the    *)
(*    key is missing, pad : the number of characters its other,            *)
(*    unrecognised fields take in its JSON text]                           *)
(* and an item is [isDict, title, url, text : text or NoText,              *)
(*                 score : "none", "num" or "text"].                       *)

\* result[:4000] of the raw-JSON fallback
RAW_JSON_LIMIT == 4000

\* raw_sources[:8]
MAX_KB_SOURCES == 8

\* The value None / a missing key of a list field.
NoList ==
  <<[isDict |-> FALSE, title |-> NoText, url |-> NoText, text |-> NoText,
     score |-> "<None>"]>>

\* Python truthiness of a text value / of a list value
TruthyText(t) == IsStr(t) /\ t # <<>>
TruthyList(l) == l # NoList /\ l # <<>>

\* a or b or c, for text values
OrText(a, b, c) == IF TruthyText(a) THEN a ELSE IF TruthyText(b) THEN b ELSE c

\* a or b or c or [], for list values
OrList(a, b, c) ==
  IF TruthyList(a) THEN a ELSE IF TruthyList(b) THEN b
  ELSE IF TruthyList(c) THEN c ELSE <<>>

RECURSIVE Join(_, _)
Join(bits, sep) ==
  IF bits = <<>> THEN <<>>
  ELSE IF Len(bits) = 1 THEN bits[1]
  ELSE bits[1] \o sep \o Join(Tail(bits), sep)

Filler(n) == [i \in 1..n |-> "x"]

JsonText(key, t) ==
  IF IsStr(t) THEN <<key, ":", "'">> \o t \o <<"'", ",">> ELSE <<>>

JsonItem(item) ==
  IF ~item.isDict THEN <<"0", ",">>
  ELSE <<"{">> \o JsonText("title", item.title) \o JsonText("url", item.url)
       \o JsonText("text", item.text)
       \o (IF item.score = "none" THEN <<>> ELSE <<"score", ":", item.score, ",">>)
       \o <<"}", ",">>

RECURSIVE JsonItems(_)
JsonItems(items) ==
  IF items = <<>> THEN <<>> ELSE JsonItem(Head(items)) \o JsonItems(Tail(items))

JsonList(key, l) ==
  IF l = NoList THEN <<>> ELSE <<key, ":", "[">> \o JsonItems(l) \o <<"]", ",">>

\* json.dumps(result, ensure_ascii=False)
JsonDumps(result) ==
  <<"{">> \o JsonText("answer", result.answer) \o JsonText("output", result.output)
  \o JsonText("response", result.response)
  \o JsonList("sources", result.sources) \o JsonList("results", result.results)
  \o JsonList("documents", result.documents)
  \o Filler(result.pad) \o <<"}">>

\* the snippet and the source record one item of raw_sources contributes
ItemHeader(item, idx) ==
  LET title == IF TruthyText(item.title) THEN item.title ELSE <<"KB#", ToString(idx)>>
      url   == IF TruthyText(item.url) THEN item.url ELSE <<>>
      bits  == (IF Strip(title) # <<>> THEN <<Strip(title)>> ELSE <<>>)
               \o (IF Strip(url) # <<>> THEN <<Strip(url)>> ELSE <<>>)
               \o (IF item.score = "num" THEN << <<"score=", "num">> >> ELSE <<>>)
  IN  Strip(Join(bits, <<" ", "|", " ">>))

ItemSnippets(item, idx) ==
  LET header == ItemHeader(item, idx)
      body   == IF IsStr(item.text) THEN Strip(item.text) ELSE <<>>
  IN  IF ~item.isDict \/ body = <<>> THEN <<>>
      ELSE IF header # <<>>
           THEN << <<"[", ToString(idx), "]", " ">> \o header \o <<"\n">> \o body >>
           ELSE << <<"[", ToString(idx), "]", "\n">> \o body >>

ItemSources(item, idx) ==
  LET title == IF TruthyText(item.title) THEN item.title ELSE <<"KB#", ToString(idx)>>
  IN  IF item.isDict /\ TruthyText(item.url) /\ Strip(item.url) # <<>>
      THEN << [label |-> title, value |-> item.url, short_url |-> item.url] >>
      ELSE <<>>

RECURSIVE SourceSnippets(_, _)
SourceSnippets(items, idx) ==
  IF idx > Len(items) THEN <<>>
  ELSE ItemSnippets(items[idx], idx) \o SourceSnippets(items, idx + 1)

RECURSIVE SourceRecords(_, _)
SourceRecords(items, idx) ==
  IF idx > Len(items) THEN <<>>
  ELSE ItemSources(items[idx], idx) \o SourceRecords(items, idx + 1)

\* The raw-JSON fallback without its [:4000] cut.
autorag_normalize_result_uncut(result) ==
  IF ~result.isDict THEN [snippets |-> <<>>, sources |-> <<>>, raised |-> FALSE]
  ELSE LET answer == OrText(result.answer, result.output, result.response)
           raw    == Take(OrList(result.sources, result.results, result.documents),
                          MAX_KB_SOURCES)
           found  == (IF NonBlank(answer) THEN <<Strip(answer)>> ELSE <<>>)
                     \o SourceSnippets(raw, 1)
       IN  [snippets |-> IF found = <<>> THEN <<JsonDumps(result)>> ELSE found,
            sources  |-> SourceRecords(raw, 1),
            raised   |-> FALSE]

\* _autorag_normalize_result: (snippets, sources); no statement of it can raise
\* outside its own try blocks.
autorag_normalize_result(result) ==
  IF ~result.isDict THEN [snippets |-> <<>>, sources |-> <<>>, raised |-> FALSE]
  ELSE LET answer == OrText(result.answer, result.output, result.response)
           raw    == Take(OrList(result.sources, result.results, result.documents),
                          MAX_KB_SOURCES)
           found  == (IF NonBlank(answer) THEN <<Strip(answer)>> ELSE <<>>)
                     \o SourceSnippets(raw, 1)
       IN  [snippets |-> IF found = <<>>
                         THEN <<Take(JsonDumps(result), RAW_JSON_LIMIT)>> ELSE found,
            sources  |-> SourceRecords(raw, 1),
            raised   |-> FALSE]

-----------------------------------------------------------------------------
(* finalize_answer: data.                                                  *)
(* Keywords are token sequences; a keyword that is a substring of another  *)
(* one shares its tokens with it ("九宫格分镜" is "jiugongge" "fenjing").  *)

\* The value None / a missing key of a number field.
NoNum == -1

\* Durations are counted in half seconds, so that 12.5 is a value.
Sec(n) == 2 * n

\* requested < 10, requested > 15 (lines 1849, 1851)
MIN_DURATION_S == 10
MAX_DURATION_S == 15

\* int(round(x)) of a non-negative x given in half seconds: ties go to the even integer
RoundHalfEven(h) ==
  IF h % 2 = 0 THEN h \div 2
  ELSE IF ((h - 1) \div 2) % 2 = 0 THEN (h - 1) \div 2 ELSE (h + 1) \div 2

\* A tool call as _collect_stream_text_and_tools returns it.  argsOk is FALSE when
\* "arguments" is not a dict (unparseable JSON text is kept as a string); cfgOk is
\* FALSE when "config" is not a dict.  Fields a call does not carry are None.
ToolCall(id, name) ==
  [id |-> id, name |-> name, argsOk |-> TRUE, type |-> "", label |-> NoText,
   cfgOk |-> FALSE, kind |-> "", prompt |-> NoText, negativePrompt |-> NoText,
   durationSeconds |-> NoNum, duration |-> NoNum, structured |-> FALSE,
   aspectRatio |-> "",
   nodeId |-> NoText, sourceNodeId |-> NoText, targetNodeId |-> NoText,
   sourceHandle |-> "", targetHandle |-> ""]

CreateNode(id, type, label, prompt) ==
  [ToolCall(id, "createNode") EXCEPT !.type = type, !.label = label, !.cfgOk = TRUE,
                                     !.kind = type, !.prompt = prompt]

RunNode(id, nodeId) == [ToolCall(id, "runNode") EXCEPT !.nodeId = nodeId]

ConnectNodes(id, src, tgt, srcH, tgtH) ==
  [ToolCall(id, "connectNodes") EXCEPT !.sourceNodeId = src, !.targetNodeId = tgt,
                                       !.sourceHandle = srcH, !.targetHandle = tgtH]

\* arguments that json.loads could not turn into a dict
Malformed(c) == [c EXCEPT !.argsOk = FALSE]

IsCreate(c) == c.name = "createNode"
IsRun(c) == c.name = "runNode"
IsConnect(c) == c.name = "connectNodes"

\* (c.get("arguments") or {}).get(...) raises AttributeError on such a call
BadArgs(c) == ~c.argsOk

\* label.strip() if isinstance(label, str) else ""
LabelOf(c) == IF IsStr(c.label) THEN Strip(c.label) ELSE <<>>

\* cfg.get("prompt") if isinstance(cfg, dict) else None
PromptOf(c) == IF c.cfgOk THEN c.prompt ELSE NoText

\* f"{label}\n{prompt}" / (label or "") + "\n" + (prompt or "")
Hint(label, prompt) == label \o <<"\n">> \o (IF IsStr(prompt) THEN prompt ELSE <<>>)

\* ("九宫格", "3x3", "分镜", "storyboard")
GRID_KEYWORDS == {<<"jiugongge">>, <<"3x3">>, <<"fenjing">>, <<"storyboard">>}

\* ("分镜", "九宫格", "storyboard")
STORYBOARD_LABEL_KEYWORDS == {<<"fenjing">>, <<"jiugongge">>, <<"storyboard">>}

\* ("续写", "后续剧情", "接下来", "续作")
CONTINUATION_KEYWORDS == {<<"xuxie">>, <<"houxujuqing">>, <<"jiexialai">>, <<"xuzuo">>}

\* ("推荐", "方向", "灵感", "怎么写")
RECOMMEND_KEYWORDS == {<<"tuijian">>, <<"fangxiang">>, <<"linggan">>, <<"zenmexie">>}

\* ("九宫格", "分镜", "故事板", "storyboard", "15s")
PRODUCTION_KEYWORDS ==
  {<<"jiugongge">>, <<"fenjing">>, <<"gushiban">>, <<"storyboard">>, <<"15s">>}

\* ("九宫格", "分镜", "故事板", "storyboard", "短片", "动画", "成片", "15s", "15秒")
STORYBOARD_INTENT_KEYWORDS ==
  {<<"jiugongge">>, <<"fenjing">>, <<"gushiban">>, <<"storyboard">>, <<"duanpian">>,
   <<"donghua">>, <<"chengpian">>, <<"15s">>, <<"15miao">>}

\* ("确认锁定", "锁定场景", "锁定主体", "锁定风格", "确认风格", "风格锁定", "我确认", "确认：")
LOCK_CONFIRMATION_KEYWORDS ==
  {<<"queren", "suoding">>, <<"suoding", "changjing">>, <<"suoding", "zhuti">>,
   <<"suoding", "fengge">>, <<"queren", "fengge">>, <<"fengge", "suoding">>,
   <<"wo", "queren">>, <<"queren", "colon">>}

\* ("继续", "按你给的", "就按这个", "照这个来", "不用确认", "直接生成", "别问了")
IMPLICIT_LOCK_KEYWORDS ==
  {<<"jixu">>, <<"annigeide">>, <<"jiuanzhege">>, <<"zhaozhegelai">>, <<"buyongqueren">>,
   <<"zhijie", "shengcheng">>, <<"biewenle">>}

\* ("我选择方向", "自定义续写", "续写")
CONTINUATION_STEP_KEYWORDS ==
  {<<"woxuanze", "fangxiang">>, <<"zidingyi", "xuxie">>, <<"xuxie">>}

\* ("分镜", "故事板", "storyboard", "九宫格", "15s")
WANTS_STORYBOARD_KEYWORDS ==
  {<<"fenjing">>, <<"gushiban">>, <<"storyboard">>, <<"jiugongge">>, <<"15s">>}

\* ("基于", "同款", "同风格", "沿用", "续写", "延展", "变体", "参考", "保持一致")
REFERENCE_INTENT_KEYWORDS ==
  {<<"jiyu">>, <<"tongkuan">>, <<"tong", "fengge">>, <<"yanyong">>, <<"xuxie">>,
   <<"yanzhan">>, <<"bianti">>, <<"cankao">>, <<"baochiyizhi">>}

\* ("确认锁定风格：", "风格锁定：", "锁定风格：")
STYLE_LOCK_KEYS ==
  << <<"queren", "suoding", "fengge", "colon">>, <<"fengge", "suoding", "colon">>,
     <<"suoding", "fengge", "colon">> >>

\* "角色" / "character"
CHARACTER_KEYWORDS == {<<"juese">>, <<"character">>}

\* "分段", and the note appended to a clamped composeVideo prompt (it holds "分段")
SEGMENT_KEYWORD == <<"fenduan">>
SEGMENT_NOTE == <<"\n", "\n", "yueshu:di1duan", "fenduan", "shengcheng">>

\* "衔接帧" / "bridge frame", and the continuity text appended to a storyboard prompt
BRIDGE_KEYWORDS == {<<"xianjiezhen">>, <<"bridge", " ", "frame">>}
CONTINUITY_NOTE == <<"\n", "\n", "lianxuxing", "xianjiezhen", "\n">>

\* "下一步", "你下一步", "点一个"
NEXT_STEP_KEYWORDS == {<<"xiayibu">>, <<"ni", "xiayibu">>, <<"dianyige">>}
NEXT_STEP_HOOK == <<"\n", "\n", "fenjingshengchenghou", "dianxiamianxuanxiang">>

\* the fixed reply texts (only the tokens later tests look for are kept apart)
SAFETY_REFUSAL_TEXT == <<"anquanjiancha:PG-13", "dianyige", "anniujixu">>
STORY_BRANCH_TEXT == <<"3gexuxiefangxiang", "dianyige", "zidingyifangxiang">>
LOCK_PROMPT_TEXT == <<"xiansuoding", "dianyige", "xuanxiangqueren">>
LOCK_PROMPT_SUFFIX == <<"\n", "\n", "qingxianquerensuodingguize", "huozhijiehuifu", "jixu">>
SUPERVISOR_TEXT == <<"woxianbudonghuabu", "dianyige", "xuanxiang">>
NEW_CHARACTER_TEXT == <<"xinzengjueseshedingtu", "querenhouzaijixu">>
NOT_CONFIGURED_TEXT == <<"wufashengcheng:weipeizhimiyao">>
PROVIDER_ERROR_TEXT == <<"wufashengcheng:OpenAIjiekouyichang">>
RUNTIME_ERROR_TEXT == <<"wufashengcheng:yunxingshiyichang">>

\* quick replies: [label, input]; the label names the option
QuickReply(label, input) == [label |-> label, input |-> input]

SAFETY_REFUSAL_REPLIES ==
  << QuickReply("safety:implicit-romance", <<"gaixie", "jiugongge", "fenjing">>),
     QuickReply("safety:restrained", <<"gaicheng", "fenjing", "shipin">>),
     QuickReply("safety:story-only", <<"buyaoshengchenghuamian">>),
     QuickReply("safety:storyboard-only", <<"jixu", "jiugongge", "fenjing">>) >>

STORY_BRANCH_REPLIES ==
  << QuickReply("branch:A", <<"woxuanze", "fangxiang", "A", "xuxie", "jiugongge", "fenjing", "15s", "shipin">>),
     QuickReply("branch:B", <<"woxuanze", "fangxiang", "B", "xuxie", "jiugongge", "fenjing", "15s", "shipin">>),
     QuickReply("branch:C", <<"woxuanze", "fangxiang", "C", "xuxie", "jiugongge", "fenjing", "15s", "shipin">>),
     QuickReply("branch:custom", <<"zidingyi", "xuxie", "fangxiang", "jiugongge", "fenjing", "15s", "shipin">>) >>

LOCK_DEFAULT_REPLIES ==
  << QuickReply("lock:default-anime2d", <<"queren", "suoding", "fengge", "colon", "riman2D">>),
     QuickReply("lock:comic2d", <<"queren", "suoding", "fengge", "colon", "meiman2D">>),
     QuickReply("lock:realistic", <<"queren", "suoding", "fengge", "colon", "xieshi">>),
     QuickReply("lock:custom", <<"queren", "suoding", "fengge", "colon", "\n">>) >>

LOCK_ECHO_REPLIES(style_lock) ==
  << QuickReply("lock:continue-locked",
                <<"queren", "suoding", "fengge", "colon">> \o style_lock),
     QuickReply("lock:add-subject", <<"xinzengzhuti">>),
     QuickReply("lock:change-scene", <<"suoding", "xindezhuchangjing">>),
     QuickReply("lock:custom-rules", <<"zidingyi", "suoding", "guize">>) >>

SUPERVISOR_REPLIES ==
  << QuickReply("next:pick-direction", <<"xiangei3gefangxiang">>),
     QuickReply("next:generate", <<"zhijie", "shengcheng">>),
     QuickReply("next:chat-only", <<"xianbucaozuohuabu">>) >>

NEW_CHARACTER_REPLIES ==
  << QuickReply("character:ok", <<"juese", "queren", "OK", "xuxie", "jiugongge", "fenjing">>),
     QuickReply("character:redo", <<"chongzuo", "juese">>),
     QuickReply("character:none", <<"buyaoxinzeng", "juese", "xuxie", "jiugongge", "fenjing">>) >>

\* quick_replies_payload = None
NoReplies == <<>>


-----------------------------------------------------------------------------
(* finalize_answer: the safety filter and the three gates.                 *)
(* The reply under construction is p = [text, calls, qr, raised]:          *)
(* result_text, tool_calls_payload, quick_replies_payload, and whether an  *)
(* exception has left the try block.                                       *)

IsHuman(m) == m.type = "human"

\* the content of the last human message, "" when there is none
RECURSIVE LastUserText(_)
LastUserText(messages) ==
  IF messages = <<>> THEN <<>>
  ELSE IF IsHuman(messages[Len(messages)]) THEN messages[Len(messages)].content
  ELSE LastUserText(SubSeq(messages, 1, Len(messages) - 1))

SafetyDecision(sexual, nudity, gore, violence, should_block, should_sanitize) ==
  [sexual |-> sexual, nudity |-> nudity, gore |-> gore, violence |-> violence,
   should_block |-> should_block, should_sanitize |-> should_sanitize]

\* the except branch of _classify_safety
FALLBACK_SAFETY_DECISION == SafetyDecision(FALSE, FALSE, FALSE, FALSE, FALSE, TRUE)

\* _classify_safety: the model's decision, or the fallback when the structured call
\* raises (no client, or an answer that does not parse as a SafetyDecision)
classify_safety(classifier) ==
  IF classifier.ok THEN classifier.decision ELSE FALLBACK_SAFETY_DECISION

SEXUAL_NEGATIVE == <<"nude, naked, explicit sex, porn, nipples, genitalia">>
VIOLENT_NEGATIVE ==
  <<"gore, dismemberment, intestines, brains, blood splatter close-up, explicit violence, torture porn, nude, explicit sex">>

\* cfg["negativePrompt"] = (neg_text + ("\n" if neg_text else "") + add_neg).strip()
AddNegative(neg, add_neg) ==
  LET neg_text == IF IsStr(neg) THEN neg ELSE <<>>
  IN  IF Contains(neg_text, add_neg) THEN neg
      ELSE Strip(neg_text \o (IF neg_text # <<>> THEN <<"\n">> ELSE <<>>) \o add_neg)

SanitizeCallSexual(c) ==
  IF ~IsCreate(c) \/ ~c.cfgOk THEN c
  ELSE [c EXCEPT !.prompt = sanitize_sexual_text(c.prompt),
                 !.negativePrompt = AddNegative(c.negativePrompt, SEXUAL_NEGATIVE)]

SanitizeCallViolent(c) ==
  IF ~IsCreate(c) \/ ~c.cfgOk THEN c
  ELSE [c EXCEPT !.prompt = sanitize_violent_text(c.prompt),
                 !.negativePrompt = AddNegative(c.negativePrompt, VIOLENT_NEGATIVE)]

\* The sanitizing loops run inside try/except: a createNode call whose arguments are
\* not a dict ends the loop, and the calls after it stay as they were.
RECURSIVE SanitizeCalls(_, _)
SanitizeCalls(calls, violent) ==
  IF calls = <<>> THEN <<>>
  ELSE IF IsCreate(Head(calls)) /\ BadArgs(Head(calls)) THEN calls
  ELSE <<IF violent THEN SanitizeCallViolent(Head(calls))
         ELSE SanitizeCallSexual(Head(calls))>>
       \o SanitizeCalls(Tail(calls), violent)

\* The blocking branch with the tool calls left in place.
SafetyStepKeepingCalls(p, safety) ==
  IF safety.should_block /\ (safety.sexual \/ safety.nudity)
  THEN [p EXCEPT !.qr = SAFETY_REFUSAL_REPLIES, !.text = SAFETY_REFUSAL_TEXT]
  ELSE IF safety.should_sanitize /\ (safety.sexual \/ safety.nudity)
  THEN [p EXCEPT !.calls = SanitizeCalls(p.calls, FALSE)]
  ELSE IF safety.should_sanitize /\ (safety.gore \/ safety.violence)
  THEN [p EXCEPT !.text = sanitize_violent_text(p.text),
                 !.calls = SanitizeCalls(p.calls, TRUE)]
  ELSE p

\* lines 1524-1585
SafetyStep(p, safety) ==
  IF safety.should_block /\ (safety.sexual \/ safety.nudity)
  THEN [p EXCEPT !.calls = <<>>, !.qr = SAFETY_REFUSAL_REPLIES,
                 !.text = SAFETY_REFUSAL_TEXT]
  ELSE IF safety.should_sanitize /\ (safety.sexual \/ safety.nudity)
  THEN [p EXCEPT !.calls = SanitizeCalls(p.calls, FALSE)]
  ELSE IF safety.should_sanitize /\ (safety.gore \/ safety.violence)
  THEN [p EXCEPT !.text = sanitize_violent_text(p.text),
                 !.calls = SanitizeCalls(p.calls, TRUE)]
  ELSE p

is_story_suggestion_request(last_user_text) ==
  /\ ContainsAny(last_user_text, CONTINUATION_KEYWORDS)
  /\ ContainsAny(last_user_text, RECOMMEND_KEYWORDS)
  /\ ~ContainsAny(last_user_text, PRODUCTION_KEYWORDS)

\* lines 1586-1613
StoryBranchStep(p, last_user_text) ==
  IF is_story_suggestion_request(last_user_text)
     /\ ~Contains(p.text, <<"tapcanvas_actions">>)
  THEN [p EXCEPT !.calls = <<>>, !.qr = STORY_BRANCH_REPLIES, !.text = STORY_BRANCH_TEXT]
  ELSE p

\* first_line[:80]
STYLE_LOCK_MAX == 80

\* the tokens after the first occurrence of key in text
RECURSIVE AfterKey(_, _, _)
AfterKey(text, key, i) ==
  IF i > Len(text) THEN <<>>
  ELSE IF IsAt(text, key, i) THEN SubSeq(text, i + Len(key), Len(text))
  ELSE AfterKey(text, key, i + 1)

RECURSIVE FirstLine(_)
FirstLine(text) ==
  IF text = <<>> \/ Head(text) = "\n" THEN <<>>
  ELSE <<Head(text)>> \o FirstLine(Tail(text))

\* the for-key loop on one message: [found, lock]; lock is NoText for None
RECURSIVE StyleLockInText(_, _)
StyleLockInText(text, k) ==
  IF k > Len(STYLE_LOCK_KEYS) THEN [found |-> FALSE, lock |-> NoText]
  ELSE IF Contains(text, STYLE_LOCK_KEYS[k])
          /\ Strip(AfterKey(text, STYLE_LOCK_KEYS[k], 1)) # <<>>
       THEN LET first_line == Strip(FirstLine(Strip(AfterKey(text, STYLE_LOCK_KEYS[k], 1))))
            IN  [found |-> TRUE,
                 lock  |-> IF first_line # <<>> THEN Take(first_line, STYLE_LOCK_MAX)
                           ELSE NoText]
       ELSE StyleLockInText(text, k + 1)

\* _extract_style_lock_from_messages: the newest human message with a lock key decides
RECURSIVE extract_style_lock_from_messages(_)
extract_style_lock_from_messages(messages) ==
  IF messages = <<>> THEN NoText
  ELSE LET m == messages[Len(messages)]
           older == SubSeq(messages, 1, Len(messages) - 1)
       IN  IF ~IsHuman(m) \/ m.content = <<>>
           THEN extract_style_lock_from_messages(older)
           ELSE IF StyleLockInText(m.content, 1).found
                THEN StyleLockInText(m.content, 1).lock
                ELSE extract_style_lock_from_messages(older)

\* hard_turn_cap = int(getattr(configurable, "hard_max_turn_loops", 10) or 10)
DEFAULT_HARD_TURN_CAP == 10

storyboard_intent(last_user_text) ==
  ContainsAny(last_user_text, STORYBOARD_INTENT_KEYWORDS)

\* The confirmation with a cap that opens the gate one turn later.
has_lock_confirmation_past_cap(last_user_text, agent_loop_count, hard_turn_cap) ==
  \/ ContainsAny(last_user_text, LOCK_CONFIRMATION_KEYWORDS)
  \/ (hard_turn_cap > 0 /\ agent_loop_count > hard_turn_cap)
  \/ (storyboard_intent(last_user_text)
      /\ ContainsAny(last_user_text, IMPLICIT_LOCK_KEYWORDS))

\* has_lock_confirmation after lines 1622-1635
has_lock_confirmation(last_user_text, agent_loop_count, hard_turn_cap) ==
  \/ ContainsAny(last_user_text, LOCK_CONFIRMATION_KEYWORDS)
  \/ (hard_turn_cap > 0 /\ agent_loop_count >= hard_turn_cap)
  \/ (storyboard_intent(last_user_text)
      /\ ContainsAny(last_user_text, IMPLICIT_LOCK_KEYWORDS))

LockGateFires(last_user_text, agent_loop_count, hard_turn_cap) ==
  /\ storyboard_intent(last_user_text)
  /\ ~has_lock_confirmation(last_user_text, agent_loop_count, hard_turn_cap)
  /\ ~is_story_suggestion_request(last_user_text)

\* lines 1615-1705
LockGateStep(p, messages, agent_loop_count, hard_turn_cap) ==
  LET style_lock == extract_style_lock_from_messages(messages)
  IN  IF LockGateFires(LastUserText(messages), agent_loop_count, hard_turn_cap)
      THEN [p EXCEPT
              !.calls = <<>>,
              !.qr = IF p.qr # NoReplies THEN p.qr
                     ELSE IF ~TruthyText(style_lock) THEN LOCK_DEFAULT_REPLIES
                     ELSE LOCK_ECHO_REPLIES(style_lock),
              !.text = IF Strip(p.text) = <<>> THEN LOCK_PROMPT_TEXT
                       ELSE Strip(p.text) \o LOCK_PROMPT_SUFFIX]
      ELSE p

\* lines 1707-1727; allow is state.get("allow_canvas_tools"): "true", "false" or "missing"
SupervisorStep(p, allow) ==
  IF allow = "false"
  THEN [p EXCEPT !.calls = <<>>,
                 !.qr = IF p.qr # NoReplies THEN p.qr ELSE SUPERVISOR_REPLIES,
                 !.text = IF Strip(p.text) = <<>> THEN SUPERVISOR_TEXT ELSE p.text]
  ELSE p


-----------------------------------------------------------------------------
(* finalize_answer: the rules applied to a non-empty tool-call list        *)
(* (lines 1731-2282).  A rule that reads the arguments of a call whose     *)
(* arguments are not a dict raises AttributeError: the rule and all later  *)
(* rules are left, and p keeps what was assigned before the raise.         *)

Raise(p) == [p EXCEPT !.raised = TRUE]

MapCalls(F(_), calls) == [i \in 1..Len(calls) |-> F(calls[i])]

Exists(calls, T(_)) == \E i \in 1..Len(calls) : T(calls[i])

\* s.lower() on tokens
LowerToken(tok) ==
  IF tok = "Character" THEN "character"
  ELSE IF tok = "Bridge" THEN "bridge"
  ELSE IF tok = "Frame" THEN "frame" ELSE tok
Lower(text) == [i \in 1..Len(text) |-> LowerToken(text[i])]

\* _canvas_labels_from_context; the canvas context is its list of nodes
canvas_labels_from_context(nodes) ==
  {Strip(nodes[i].label) : i \in {j \in 1..Len(nodes) : NonBlank(nodes[j].label)}}

is_continuation_step(last_user_text) ==
  /\ ContainsAny(last_user_text, CONTINUATION_STEP_KEYWORDS)
  /\ ~is_story_suggestion_request(last_user_text)

IsImageCreate(c) == IsCreate(c) /\ c.type = "image"

\* a createNode of type image whose label or prompt names a storyboard grid
IsGridCreate(c) ==
  IsImageCreate(c) /\ ContainsAny(Hint(LabelOf(c), PromptOf(c)), GRID_KEYWORDS)

IsNewCharacterLabel(lbl, existing_labels) ==
  /\ (Contains(lbl, <<"juese">>) \/ Contains(Lower(lbl), <<"character">>))
  /\ lbl \notin existing_labels
  /\ ~ContainsAny(lbl, STORYBOARD_LABEL_KEYWORDS)

\* set(new_character_labels)
NewCharacterLabels(calls, nodes) ==
  {LabelOf(calls[i]) :
     i \in {j \in 1..Len(calls) :
              /\ IsImageCreate(calls[j]) /\ LabelOf(calls[j]) # <<>>
              /\ IsNewCharacterLabel(LabelOf(calls[j]), canvas_labels_from_context(nodes))}}

NewCharacterRuleFires(calls, last_user_text, nodes) ==
  /\ is_continuation_step(last_user_text)
  /\ NewCharacterLabels(calls, nodes) # {}
  /\ Exists(calls, IsGridCreate)

KeptForNewCharacter(c, keep_set) ==
  \/ IsImageCreate(c) /\ IsStr(c.label) /\ Strip(c.label) \in keep_set
  \/ IsRun(c) /\ IsStr(c.nodeId) /\ Strip(c.nodeId) \in keep_set

\* lines 1749-1817
NewCharacterStep(p, last_user_text, nodes) ==
  IF p.raised THEN p
  ELSE IF Exists(p.calls, LAMBDA c : IsCreate(c) /\ BadArgs(c)) THEN Raise(p)
  ELSE IF ~NewCharacterRuleFires(p.calls, last_user_text, nodes) THEN p
  ELSE IF Exists(p.calls, LAMBDA c : IsRun(c) /\ BadArgs(c)) THEN Raise(p)
  ELSE [p EXCEPT
          !.calls = SelectSeq(p.calls,
                      LAMBDA c : KeptForNewCharacter(c, NewCharacterLabels(p.calls, nodes))),
          !.qr = NEW_CHARACTER_REPLIES,
          !.text = NEW_CHARACTER_TEXT]

NormalizeType(c) ==
  IF IsCreate(c) /\ c.type = "textToImage"
  THEN [c EXCEPT !.type = "image",
                 !.kind = IF c.cfgOk /\ c.kind = "textToImage" THEN "image" ELSE c.kind]
  ELSE c

\* lines 1819-1830
TypeNormalizationStep(p) ==
  IF p.raised THEN p ELSE [p EXCEPT !.calls = MapCalls(NormalizeType, p.calls)]

\* raw_dur: durationSeconds, or duration when durationSeconds is None
RequestedDuration(c) ==
  IF c.durationSeconds # NoNum THEN c.durationSeconds ELSE c.duration

\* _composevideo_prompt_from_structured_config: never empty, it starts with a fixed
\* header (which holds "分镜") and states the duration when there is one
composevideo_prompt_from_structured_config(c) ==
  <<"10-15miao", "fenjing", "shipintishici">>
  \o (IF RequestedDuration(c) # NoNum
      THEN <<"\n", "shichang:", ToString(RequestedDuration(c))>> ELSE <<>>)

\* The clamp that never writes the note.
ClampDurationNoteless(c) ==
  LET requested == RequestedDuration(c)
  IN  IF requested = NoNum THEN c
      ELSE IF requested < Sec(MIN_DURATION_S)
      THEN [c EXCEPT !.durationSeconds = Sec(MIN_DURATION_S)]
      ELSE IF requested > Sec(MAX_DURATION_S)
      THEN [c EXCEPT !.durationSeconds = Sec(MAX_DURATION_S)]
      ELSE [c EXCEPT !.durationSeconds = Sec(RoundHalfEven(requested))]

\* the duration clamp of one composeVideo config (lines 1845-1862)
ClampDuration(c) ==
  LET requested == RequestedDuration(c)
  IN  IF requested = NoNum THEN c
      ELSE IF requested < Sec(MIN_DURATION_S)
      THEN [c EXCEPT !.durationSeconds = Sec(MIN_DURATION_S)]
      ELSE IF requested > Sec(MAX_DURATION_S)
      THEN [c EXCEPT !.durationSeconds = Sec(MAX_DURATION_S),
                     !.prompt = IF IsStr(c.prompt) /\ ~Contains(c.prompt, SEGMENT_KEYWORD)
                                THEN RStrip(c.prompt) \o SEGMENT_NOTE ELSE c.prompt]
      ELSE [c EXCEPT !.durationSeconds = Sec(RoundHalfEven(requested))]

\* lines 1863-1869
CoercePrompt(c) ==
  IF NonBlank(c.prompt) \/ ~c.structured THEN c
  ELSE [c EXCEPT !.prompt = composevideo_prompt_from_structured_config(c)]

\* The clamp without its upper branch: a long duration is only rounded.
NormalizeComposeVideoNoCeiling(c) ==
  IF IsCreate(c) /\ c.type = "composeVideo" /\ c.cfgOk
  THEN CoercePrompt(IF RequestedDuration(c) = NoNum THEN c
                    ELSE IF RequestedDuration(c) < Sec(MIN_DURATION_S)
                    THEN [c EXCEPT !.durationSeconds = Sec(MIN_DURATION_S)]
                    ELSE [c EXCEPT !.durationSeconds =
                                      Sec(RoundHalfEven(RequestedDuration(c)))])
  ELSE c

NormalizeComposeVideo(c) ==
  IF IsCreate(c) /\ c.type = "composeVideo" /\ c.cfgOk
  THEN CoercePrompt(ClampDuration(c))
  ELSE c

\* lines 1832-1869
DurationClampStep(p) ==
  IF p.raised THEN p ELSE [p EXCEPT !.calls = MapCalls(NormalizeComposeVideo, p.calls)]


-----------------------------------------------------------------------------
(* finalize_answer: the storyboard workflow (lines 1871-2123).             *)
(* A canvas node is [label, kind, status, hasImage, promptPreview];        *)
(* hasImage says that imageUrl is a non-blank string.                      *)

CanvasNode(label, kind, status, hasImage) ==
  [label |-> label, kind |-> kind, status |-> status, hasImage |-> hasImage,
   promptPreview |-> <<>>]

wants_storyboard_by_user(last_user_text) ==
  ContainsAny(last_user_text, WANTS_STORYBOARD_KEYWORDS)

IsComposeVideoCreate(c) == IsCreate(c) /\ c.type = "composeVideo"

has_compose_video(calls) == Exists(calls, IsComposeVideoCreate)

\* position of the first createNode of type image whose hint holds a grid keyword, or 0
RECURSIVE FirstIndex(_, _, _)
FirstIndex(calls, T(_), i) ==
  IF i > Len(calls) THEN 0
  ELSE IF T(calls[i]) THEN i ELSE FirstIndex(calls, T, i + 1)

\* storyboard_image_label: "" stands for None
storyboard_image_label(calls) ==
  LET i == FirstIndex(calls, IsGridCreate, 1)
  IN  IF i = 0 THEN <<>> ELSE LabelOf(calls[i])

storyboard_image_prompt(calls) ==
  LET i == FirstIndex(calls, IsGridCreate, 1)
  IN  IF i = 0 THEN NoText ELSE PromptOf(calls[i])

\* wants_storyboard_by_user or bool(storyboard_image_label)
wants_storyboard(last_user_text, calls) ==
  wants_storyboard_by_user(last_user_text) \/ storyboard_image_label(calls) # <<>>

\* kind / status / label / imageUrl tests shared by the two scans of the canvas
IsSuccessfulImageNode(n) ==
  /\ NonBlank(n.label)
  /\ n.kind \in {"image", "textToImage", "mosaic"}
  /\ n.status = "success"
  /\ n.hasImage

\* ("分镜", "九宫格", "storyboard", "视频", "15s视频")
STRUCTURE_LABEL_KEYWORDS ==
  {<<"fenjing">>, <<"jiugongge">>, <<"storyboard">>, <<"shipin">>, <<"15s", "shipin">>}
\* ("角色", "设定", "立绘", "主视觉", "character", "design")
SUBJECT_LABEL_KEYWORDS ==
  {<<"juese">>, <<"sheding">>, <<"lihui">>, <<"zhushijue">>, <<"character">>, <<"design">>}
\* ("产品", "道具", "物件", "prop", "product")
PROP_LABEL_KEYWORDS ==
  {<<"chanpin">>, <<"daoju">>, <<"wujian">>, <<"prop">>, <<"product">>}
\* ("fox", "bunny", "rabbit") in lower case, ("狐狸", "兔子")
MASCOT_LABEL_KEYWORDS ==
  {<<"fox">>, <<"bunny">>, <<"rabbit">>, <<"huli">>, <<"tuzi">>}

SUBJECT_SCORE == 3
PROP_SCORE == 2
MASCOT_SCORE == 2
MAX_REFERENCES == 3

ReferenceScore(label) ==
  (IF ContainsAny(label, SUBJECT_LABEL_KEYWORDS) THEN SUBJECT_SCORE ELSE 0)
  + (IF ContainsAny(label, PROP_LABEL_KEYWORDS) THEN PROP_SCORE ELSE 0)
  + (IF ContainsAny(Lower(label), MASCOT_LABEL_KEYWORDS) THEN MASCOT_SCORE ELSE 0)

\* the latest successful storyboard image other than the one being created, or ""
StoryboardAnchor(nodes, storyboard_label) ==
  LET S == {i \in 1..Len(nodes) :
              /\ IsSuccessfulImageNode(nodes[i])
              /\ Strip(nodes[i].label) # storyboard_label
              /\ ContainsAny(Hint(Strip(nodes[i].label), nodes[i].promptPreview), GRID_KEYWORDS)}
  IN  IF S = {} THEN <<>> ELSE Strip(nodes[CHOOSE i \in S : \A j \in S : j <= i].label)

ReferenceCandidates(nodes, storyboard_label) ==
  {i \in 1..Len(nodes) :
     /\ IsSuccessfulImageNode(nodes[i])
     /\ Strip(nodes[i].label) # storyboard_label
     /\ ~ContainsAny(Strip(nodes[i].label), STRUCTURE_LABEL_KEYWORDS)}

\* candidates.sort(key=(score, idx), reverse=True), as the list of labels
RECURSIVE SortedCandidates(_, _)
SortedCandidates(nodes, S) ==
  IF S = {} THEN <<>>
  ELSE LET Sc(i) == ReferenceScore(Strip(nodes[i].label))
           top == CHOOSE i \in S :
                    \A j \in S : Sc(j) < Sc(i) \/ (Sc(j) = Sc(i) /\ j <= i)
       IN  <<Strip(nodes[top].label)>> \o SortedCandidates(nodes, S \ {top})

InList(x, list) == \E i \in 1..Len(list) : list[i] = x

RECURSIVE PickInto(_, _, _)
PickInto(picked, labels, i) ==
  IF i > Len(labels) THEN picked
  ELSE IF InList(labels[i], picked) THEN PickInto(picked, labels, i + 1)
  ELSE IF Len(picked) + 1 >= MAX_REFERENCES THEN Append(picked, labels[i])
  ELSE PickInto(Append(picked, labels[i]), labels, i + 1)

\* _pick_reference_image_labels_from_canvas_context
pick_reference_image_labels_from_canvas_context(nodes, storyboard_label) ==
  LET anchor == StoryboardAnchor(nodes, storyboard_label)
      sorted == SortedCandidates(nodes, ReferenceCandidates(nodes, storyboard_label))
      picked == PickInto(IF anchor # <<>> THEN <<anchor>> ELSE <<>>, sorted, 1)
  IN  Take(picked, MAX_REFERENCES)

\* the createNode that receives the continuity text (lines 1994-2008), or 0
ContinuityTarget(calls, label) ==
  FirstIndex(calls,
             LAMBDA c : /\ IsImageCreate(c) /\ IsStr(c.label) /\ Strip(c.label) = label
                        /\ c.cfgOk /\ NonBlank(c.prompt),
             1)

\* lines 1993-2020
InjectContinuity(calls, label) ==
  LET i == ContinuityTarget(calls, label)
  IN  IF i = 0 THEN calls
      ELSE IF \/ Contains(calls[i].prompt, <<"xianjiezhen">>)
              \/ Contains(Lower(calls[i].prompt), <<"bridge", " ", "frame">>)
      THEN calls
      ELSE [calls EXCEPT ![i].prompt = RStrip(calls[i].prompt) \o CONTINUITY_NOTE]

\* (source, target) pairs of the connectNodes calls of the list
existing_pairs(calls) ==
  {<<Strip(calls[i].sourceNodeId), Strip(calls[i].targetNodeId)>> :
     i \in {j \in 1..Len(calls) :
              /\ IsConnect(calls[j])
              /\ NonBlank(calls[j].sourceNodeId) /\ NonBlank(calls[j].targetNodeId)}}

existing_targets(calls) == {pr[2] : pr \in existing_pairs(calls)}

TargetsRun(c, label) == IsRun(c) /\ c.argsOk /\ IsStr(c.nodeId) /\ Strip(c.nodeId) = label

\* run_idx: the first runNode of the label (0: none)
RunIndex(calls, label) == FirstIndex(calls, LAMBDA c : TargetsRun(c, label), 1)

\* create_idx: the last createNode of the label before the scan stops at run_idx (0: none)
CreateIndex(calls, label) ==
  LET stop == IF RunIndex(calls, label) = 0 THEN Len(calls) ELSE RunIndex(calls, label)
      S == {i \in 1..stop : IsCreate(calls[i]) /\ IsStr(calls[i].label)
                            /\ Strip(calls[i].label) = label}
  IN  IF S = {} THEN 0 ELSE CHOOSE i \in S : \A j \in S : j <= i

\* the scan for run_idx reads the arguments of every runNode up to the one it stops at
RunScanRaises(calls, label) ==
  LET stop == IF RunIndex(calls, label) = 0 THEN Len(calls) ELSE RunIndex(calls, label)
  IN  \E i \in 1..stop : IsRun(calls[i]) /\ BadArgs(calls[i])

\* list[pos:pos] = items, pos counted from 1 (the item lands at position pos)
InsertAll(list, pos, items) ==
  LET k == Min(pos, Len(list) + 1)
  IN  SubSeq(list, 1, k - 1) \o items \o SubSeq(list, k, Len(list))

ReferenceConnects(refs, label, pairs) ==
  LET keep == SelectSeq(refs, LAMBDA src : <<src, label>> \notin pairs)
  IN  [i \in 1..Len(keep) |->
         ConnectNodes("auto_ref", keep[i], label, "out-image-wide", "in-image-wide")]

\* lines 2035-2071
WireReferences(calls, refs, label) ==
  LET run_idx == RunIndex(calls, label)
      create_idx == CreateIndex(calls, label)
      at0 == IF run_idx # 0 THEN run_idx ELSE Len(calls) + 1
      insert_at == IF create_idx # 0 /\ at0 <= create_idx THEN create_idx + 1 ELSE at0
  IN  InsertAll(calls, insert_at, ReferenceConnects(refs, label, existing_pairs(calls)))

\* lines 1985-2071
StoryboardReferenceStep(p, last_user_text, nodes) ==
  LET label == storyboard_image_label(p.calls)
      refs == pick_reference_image_labels_from_canvas_context(nodes, label)
      noted == InjectContinuity(p.calls, label)
  IN  IF p.raised \/ ~wants_storyboard(last_user_text, p.calls) \/ label = <<>> THEN p
      ELSE IF refs = <<>> THEN [p EXCEPT !.calls = noted]
      ELSE IF \/ Exists(noted, LAMBDA c : IsConnect(c) /\ BadArgs(c))
              \/ RunScanRaises(noted, label)
      THEN Raise([p EXCEPT !.calls = noted])
      ELSE [p EXCEPT !.calls = WireReferences(noted, refs, label)]


\* "九宫格分镜" / "分镜" -> "15s视频", else the suffix "-15s视频"
video_label_for(label) ==
  LET replaced == Replace(Replace(label, <<"jiugongge", "fenjing">>, <<"15s", "shipin">>),
                          <<"fenjing">>, <<"15s", "shipin">>)
  IN  IF replaced = label THEN label \o <<"-", "15s", "shipin">> ELSE replaced

STORYBOARD_HINT_LIMIT == 1200
AUTO_VIDEO_SECONDS == 15

\* video_prompt: the fixed text, then the storyboard prompt when there is one
video_prompt_for(prompt) ==
  <<"genjushangyoucankaotu", "jiugongge", "fenjing", "shengcheng15miaoshipin">>
  \o (IF NonBlank(prompt)
      THEN <<"\n", "\n", "fenjing", "buchong", "\n">>
           \o (IF Len(Strip(prompt)) > STORYBOARD_HINT_LIMIT
               THEN RStrip(Take(Strip(prompt), STORYBOARD_HINT_LIMIT)) \o <<"...">>
               ELSE Strip(prompt))
      ELSE <<>>)

auto_create_video(label, prompt) ==
  [CreateNode("auto_create_video", "composeVideo", video_label_for(label),
              video_prompt_for(prompt))
     EXCEPT !.durationSeconds = Sec(AUTO_VIDEO_SECONDS), !.aspectRatio = "16:9"]

auto_connect_video(label) ==
  ConnectNodes("auto_connect", label, video_label_for(label), "out-image", "in-image")

\* The synthesis with the connection left out.
SynthesizeVideoUnconnected(calls, label, prompt) ==
  Append(calls, auto_create_video(label, prompt))

\* lines 2096-2123
SynthesizeVideo(calls, label, prompt) ==
  calls \o <<auto_create_video(label, prompt), auto_connect_video(label)>>

\* lines 2073-2123; has_compose_video and the storyboard label and prompt were computed
\* at lines 1878-1902, before the reference connections were inserted
VideoSynthesisStep(p, before, last_user_text) ==
  IF p.raised THEN p
  ELSE IF /\ wants_storyboard(last_user_text, before)
          /\ storyboard_image_label(before) # <<>>
          /\ ~has_compose_video(before)
  THEN [p EXCEPT !.calls = SynthesizeVideo(p.calls, storyboard_image_label(before),
                                           storyboard_image_prompt(before))]
  ELSE p

reference_intent(last_user_text) == ContainsAny(last_user_text, REFERENCE_INTENT_KEYWORDS)

\* _pick_latest_success_image_label: "" stands for None
pick_latest_success_image_label(nodes) ==
  LET S == {i \in 1..Len(nodes) :
              /\ IsSuccessfulImageNode(nodes[i])
              /\ ~ContainsAny(Strip(nodes[i].label), STORYBOARD_LABEL_KEYWORDS)}
  IN  IF S = {} THEN <<>> ELSE Strip(nodes[CHOOSE i \in S : \A j \in S : j <= i].label)

\* the tests of lines 2181-2201 on the call the loop looks at
NeedsUpstream(c, upstream_label, targets) ==
  /\ IsImageCreate(c) /\ LabelOf(c) # <<>>
  /\ LabelOf(c) # upstream_label
  /\ ~ContainsAny(Hint(LabelOf(c), PromptOf(c)), GRID_KEYWORDS)
  /\ LabelOf(c) \notin targets

\* The loop of lines 2180-2226.  It walks a copy of the list taken before the loop
\* (snapshot) with the index idx, and searches and inserts in the list itself (live)
\* from that same index.  w = [live, targets, raised].
RECURSIVE WireUpstream(_, _, _, _)
WireUpstream(w, snapshot, upstream_label, k) ==
  IF k > Len(snapshot) \/ w.raised THEN w
  ELSE IF ~NeedsUpstream(snapshot[k], upstream_label, w.targets)
  THEN WireUpstream(w, snapshot, upstream_label, k + 1)
  ELSE LET target == LabelOf(snapshot[k])
           later == {j \in (k + 1)..Len(w.live) : IsRun(w.live[j])}
           hit == {j \in later : ~BadArgs(w.live[j]) /\ TargetsRun(w.live[j], target)}
           bad == {j \in later : BadArgs(w.live[j])}
           first_hit == IF hit = {} THEN Len(w.live) + 1
                        ELSE CHOOSE j \in hit : \A h \in hit : j <= h
           conn == ConnectNodes("auto_ref_upstream", upstream_label, target,
                                "out-image", "in-image")
       IN  IF \E j \in bad : j < first_hit
           THEN [w EXCEPT !.raised = TRUE]
           ELSE WireUpstream(
                  [w EXCEPT !.live = InsertAll(w.live,
                                               IF hit = {} THEN k + 1 ELSE first_hit,
                                               <<conn>>),
                            !.targets = w.targets \cup {target}],
                  snapshot, upstream_label, k + 1)

\* lines 2125-2226
UpstreamReferenceStep(p, last_user_text, nodes) ==
  LET upstream_label == pick_latest_success_image_label(nodes)
      w == WireUpstream([live |-> p.calls, targets |-> existing_targets(p.calls),
                         raised |-> FALSE],
                        p.calls, upstream_label, 1)
  IN  IF p.raised \/ ~reference_intent(last_user_text) \/ upstream_label = <<>> THEN p
      ELSE IF Exists(p.calls, LAMBDA c : IsConnect(c) /\ BadArgs(c)) THEN Raise(p)
      ELSE [p EXCEPT !.calls = w.live, !.raised = w.raised]

CreatedLabels(calls, types) ==
  {LabelOf(calls[i]) :
     i \in {j \in 1..Len(calls) :
              IsCreate(calls[j]) /\ calls[j].type \in types /\ LabelOf(calls[j]) # <<>>}}

\* lines 2228-2253
PrematureRunStep(p) ==
  LET videos == CreatedLabels(p.calls, {"composeVideo"})
  IN  IF p.raised THEN p
      ELSE IF CreatedLabels(p.calls, {"image", "textToImage"}) = {} \/ videos = {} THEN p
      ELSE IF Exists(p.calls, LAMBDA c : IsRun(c) /\ BadArgs(c)) THEN Raise(p)
      ELSE [p EXCEPT !.calls =
              SelectSeq(p.calls,
                        LAMBDA c : ~(IsRun(c) /\ IsStr(c.nodeId) /\ Strip(c.nodeId) \in videos))]

\* already_running
AlreadyRunning(calls) ==
  {Strip(calls[i].nodeId) : i \in {j \in 1..Len(calls) : IsRun(calls[j]) /\ NonBlank(calls[j].nodeId)}}

\* created_labels, in the order of the list, and the runNode appended for each label
\* that is not already running
RECURSIVE AutoRuns(_, _, _)
AutoRuns(calls, running, i) ==
  IF i > Len(calls) THEN <<>>
  ELSE (IF /\ IsCreate(calls[i]) /\ calls[i].type \in {"image", "textToImage"}
           /\ LabelOf(calls[i]) # <<>> /\ LabelOf(calls[i]) \notin running
        THEN <<RunNode("auto_run", LabelOf(calls[i]))>> ELSE <<>>)
       \o AutoRuns(calls, running, i + 1)

\* lines 2255-2282
AutoRunStep(p) ==
  IF p.raised THEN p
  ELSE IF Exists(p.calls, LAMBDA c : IsRun(c) /\ BadArgs(c)) THEN Raise(p)
  ELSE [p EXCEPT !.calls = p.calls \o AutoRuns(p.calls, AlreadyRunning(p.calls), 1)]

\* lines 1731-2282: the rules in the order of the code, on a non-empty list.  The
\* trace records how far the rules got: whether the duration rule and the video
\* synthesis were reached, and the list that the storyboard detection read.
PostProcess(p, last_user_text, nodes) ==
  IF p.raised \/ p.calls = <<>> THEN p
  ELSE LET p1 == NewCharacterStep(p, last_user_text, nodes)
           p2 == TypeNormalizationStep(p1)
           p3 == DurationClampStep(p2)
           p4 == StoryboardReferenceStep(p3, last_user_text, nodes)
           p5 == VideoSynthesisStep(p4, p3.calls, last_user_text)
           p6 == UpstreamReferenceStep(p5, last_user_text, nodes)
           p7 == PrematureRunStep(p6)
       IN  [AutoRunStep(p7) EXCEPT !.trace = [clamp_ran |-> ~p1.raised,
                                              storyboard_calls |-> p3.calls,
                                              synthesis_ran |-> ~p4.raised]]


-----------------------------------------------------------------------------
(* finalize_answer: the reply text, its quick replies and the message      *)
(* (lines 1357-1393 and 2311-2418).                                        *)

\* text.find(key, from): the first position at or after from, 0 when there is none
RECURSIVE Find(_, _, _)
Find(text, key, from) ==
  IF from > Len(text) THEN 0
  ELSE IF IsAt(text, key, from) THEN from ELSE Find(text, key, from + 1)

\* The payload of a fenced block is a list of tokens: "act:<name>" is one well-formed
\* action, "act:blank" an action with a blank label; any other token, or no token at
\* all, makes json.loads raise.
IsActionToken(tok) == tok \in {"act:a", "act:b", "act:blank"}

MAX_MODEL_ACTIONS == 6

ParseActions(payload) ==
  IF payload = <<>> \/ \E i \in 1..Len(payload) : ~IsActionToken(payload[i])
  THEN NoReplies
  ELSE LET kept == SelectSeq(payload, LAMBDA tok : tok # "act:blank")
       IN  Take([i \in 1..Len(kept) |-> QuickReply(kept[i], <<kept[i]>>)],
                MAX_MODEL_ACTIONS)

\* _extract_tapcanvas_actions: (cleaned text, quick replies or None); the token "fence"
\* is the three-backtick fence
extract_tapcanvas_actions(text) ==
  LET start == Find(text, <<"fence", "tapcanvas_actions">>, 1)
      newline == IF start = 0 THEN 0 ELSE Find(text, <<"\n">>, start + 2)
      end_fence == IF newline = 0 THEN 0 ELSE Find(text, <<"fence">>, newline + 1)
  IN  IF ~IsStr(text) \/ end_fence = 0
      THEN [text |-> text, qr |-> NoReplies]
      ELSE [text |-> Strip(SubSeq(text, 1, start - 1)
                           \o SubSeq(text, end_fence + 1, Len(text))),
            qr |-> ParseActions(Strip(SubSeq(text, newline + 1, end_fence - 1)))]

FALLBACK_LABELS_SHOWN == 3

Count(calls, name) == Len(SelectSeq(calls, LAMBDA c : c.name = name))

\* _fallback_text_from_tool_calls (reads the arguments of every createNode)
fallback_text_from_tool_calls(calls) ==
  LET creates == SelectSeq(calls, IsCreate)
      named == SelectSeq(creates, LAMBDA c : LabelOf(c) # <<>>)
      labels == [i \in 1..Len(named) |-> LabelOf(named[i])]
      part(word, n) == IF n > 0 THEN << <<word, ToString(n)>> >> ELSE <<>>
      created == IF creates = <<>> THEN <<>>
                 ELSE IF labels # <<>>
                 THEN << <<"yichuangjianjiedian">>
                         \o Join(Take(labels, FALLBACK_LABELS_SHOWN), <<",">>)
                         \o (IF Len(labels) > FALLBACK_LABELS_SHOWN THEN <<"...">> ELSE <<>>) >>
                 ELSE part("yichuangjian", Len(creates))
      parts == created \o part("yigengxin", Count(calls, "updateNode"))
               \o part("yilianjie", Count(calls, "connectNodes"))
               \o part("yichufayunxing", Count(calls, "runNode"))
  IN  IF parts = <<>> THEN <<"yigengxinhuabu">> ELSE Join(parts, <<";">>) \o <<".">>

MAX_QUICK_REPLIES == 4

\* the synthesized next-step options (lines 2344-2371)
NextStepReplies(calls) ==
  LET videos == SelectSeq(calls, LAMBDA c : IsComposeVideoCreate(c) /\ LabelOf(c) # <<>>
                                            /\ LabelOf(c) \notin AlreadyRunning(calls))
      images == SelectSeq(calls, LAMBDA c : IsCreate(c) /\ c.type \in {"image", "textToImage"}
                                            /\ LabelOf(c) # <<>>)
  IN  Take((IF videos # <<>>
            THEN <<QuickReply("next:run-video", <<"qingyunxingjiedian">> \o LabelOf(videos[1]))>>
            ELSE <<>>)
           \o (IF images # <<>>
               THEN <<QuickReply("next:tune-storyboard",
                                 <<"weitiao", "jiugongge", "fenjing">>
                                 \o LabelOf(images[Len(images)]))>>
               ELSE <<>>)
           \o <<QuickReply("next:change-style", <<"huanyigefangxiang", "jiugongge", "fenjing">>)>>,
           MAX_QUICK_REPLIES)

\* lines 2321-2379, inside try/except: m = [content, qr]
NextStepHook(m, calls) ==
  IF calls = <<>> \/ Exists(calls, LAMBDA c : (IsCreate(c) \/ IsRun(c)) /\ BadArgs(c))
  THEN m
  ELSE [content |-> IF IsStr(m.content) /\ ~ContainsAny(m.content, NEXT_STEP_KEYWORDS)
                    THEN Strip(Strip(m.content) \o NEXT_STEP_HOOK) ELSE m.content,
        qr |-> IF m.qr = NoReplies THEN NextStepReplies(calls) ELSE m.qr]

\* lines 2316-2317
ExtractFromContent(content, qr) ==
  IF NonBlank(content)
  THEN [content |-> extract_tapcanvas_actions(content).text,
        qr |-> extract_tapcanvas_actions(content).qr]
  ELSE [content |-> content, qr |-> qr]

\* lines 2311-2418: the message built from result.content, tool_calls_payload and
\* quick_replies_payload.  No source of sources_gathered is cited in the modelled texts.
Assemble(p, llm_error, gated, agent_loop_count) ==
  LET blank == ~NonBlank(p.text) /\ p.calls # <<>>
      content == IF blank THEN fallback_text_from_tool_calls(p.calls) ELSE p.text
      m == NextStepHook(ExtractFromContent(content, p.qr), p.calls)
  IN  [kind |-> IF blank /\ Exists(p.calls, LAMBDA c : IsCreate(c) /\ BadArgs(c))
                THEN "raised" ELSE "message",
       content |-> m.content, tool_calls |-> p.calls, quick_replies |-> m.qr,
       llm_error |-> llm_error, agent_loop_count |-> agent_loop_count,
       gated |-> gated, policy_replies |-> p.qr, aborted |-> p.raised, trace |-> p.trace]


\* The reply under construction when the try block is entered.
EmptyReply ==
  [text |-> <<>>, calls |-> <<>>, qr |-> NoReplies, raised |-> FALSE,
   trace |-> [clamp_ran |-> FALSE, storyboard_calls |-> <<>>, synthesis_ran |-> FALSE]]

\* The filter and the gates with the permission flag read as granted.
GatedIgnoringPermission(t, agent_loop_count) ==
  LET filtered == filter_tool_calls_by_role(t.calls, resolve_role(t.active_role), TRUE)
      p0 == [EmptyReply EXCEPT !.text = t.text, !.calls = filtered]
      p1 == SafetyStep(p0, classify_safety(t.classifier))
      p2 == StoryBranchStep(p1, LastUserText(t.messages))
  IN  LockGateStep(p2, t.messages, agent_loop_count, t.hard_turn_cap)

\* lines 1415-1727: the role filter, the safety filter and the three gates
Gated(t, agent_loop_count) ==
  LET filtered == filter_tool_calls_by_role(t.calls, resolve_role(t.active_role),
                                            t.allow # "false")
      p0 == [EmptyReply EXCEPT !.text = t.text, !.calls = filtered]
      p1 == SafetyStep(p0, classify_safety(t.classifier))
      p2 == StoryBranchStep(p1, LastUserText(t.messages))
      p3 == LockGateStep(p2, t.messages, agent_loop_count, t.hard_turn_cap)
  IN  SupervisorStep(p3, t.allow)

\* lines 1398-2299: the OpenAI branch.  t.llm is the outcome of the model call: "ok",
\* or the exception it raised.  An exception raised by a rule is caught at line 2296;
\* the tool calls keep what they held when it was raised.
OpenAIReply(t, agent_loop_count) ==
  LET gated == Gated(t, agent_loop_count)
      done == PostProcess(gated, LastUserText(t.messages), t.nodes)
  IN  IF t.llm = "ValueError"
      THEN Assemble([EmptyReply EXCEPT !.text = NOT_CONFIGURED_TEXT],
                    "ValueError", <<>>, agent_loop_count)
      ELSE IF t.llm = "OpenAIError"
      THEN Assemble([EmptyReply EXCEPT !.text = PROVIDER_ERROR_TEXT],
                    "OpenAIError", <<>>, agent_loop_count)
      ELSE IF t.llm = "Exception"
      THEN Assemble([EmptyReply EXCEPT !.text = RUNTIME_ERROR_TEXT],
                    "Exception", <<>>, agent_loop_count)
      ELSE IF done.raised
      THEN Assemble([done EXCEPT !.text = RUNTIME_ERROR_TEXT],
                    "AttributeError", gated.calls, agent_loop_count)
      ELSE Assemble(done, "", gated.calls, agent_loop_count)

\* lines 2300-2309: the Gemini branch proposes no tool call; without a key
\* require_gemini_key raises out of finalize_answer
GeminiReply(t, agent_loop_count) ==
  IF t.llm = "ok"
  THEN Assemble([EmptyReply EXCEPT !.text = t.text], "", <<>>, agent_loop_count)
  ELSE [Assemble(EmptyReply, t.llm, <<>>, agent_loop_count) EXCEPT !.kind = "raised"]

\* finalize_answer(state, config), called with agent_loop_count turns behind it
finalize_answer(t, agent_loop_count) ==
  IF t.provider = "openai"
  THEN OpenAIReply(t, agent_loop_count + 1)
  ELSE GeminiReply(t, agent_loop_count + 1)


-----------------------------------------------------------------------------
(* The helpers above, called on bounded inputs.                            *)

\* longest text given to a sanitizer
MaxTextLen == 4

\* longest list under one sources/results/documents key
MaxKbItems == 1

TextsOver(alphabet, n) == UNION {[1..k -> alphabet] : k \in 0..n}

\* 露 点 裸 体 性 交 强 奸, and a blank
SexualAlphabet ==
  {"u9732", "u70B9", "u88F8", "u4F53", "u6027", "u4EA4", "u5F3A", "u5978", WS}

RECURSIVE Flatten(_)
Flatten(pieces) == IF pieces = <<>> THEN <<>> ELSE Head(pieces) \o Flatten(Tail(pieces))

\* texts around the four-letter key "porn"
PornPieces == {<<"p", "o", "r", "n">>, <<"p">>, <<"n">>, <<"u9732">>, <<"u70B9">>}
PornTexts == {Flatten(ps) : ps \in TextsOver(PornPieces, MaxTextLen - 1)}

\* 断 肢 解 喷 血 浆 肉 模 糊
ViolentAlphabet ==
  {"u65AD", "u80A2", "u89E3", "u55B7", "u8840", "u6D46", "u8089", "u6A21", "u7CCA"}

RoleIdInputs == RoleRegistry \cup {"", "unknown_role", "Storyboard_Artist"}

KbTexts == {NoText, <<WS>>, <<"a">>}

KbItems ==
  {[isDict |-> FALSE, title |-> NoText, url |-> NoText, text |-> NoText, score |-> "none"]}
  \cup [isDict : {TRUE}, title : {NoText, <<"t">>}, url : {NoText, <<"u">>},
        text : KbTexts, score : {"none", "num", "text"}]

KbLists == {NoList} \cup TextsOver(KbItems, MaxKbItems)

KbResults ==
  {[isDict |-> FALSE, answer |-> NoText, output |-> NoText, response |-> NoText,
    sources |-> NoList, results |-> NoList, documents |-> NoList, pad |-> 0]}
  \cup [isDict : {TRUE}, answer : KbTexts, output : {NoText, <<"o">>},
        response : {NoText, <<>>}, sources : KbLists,
        results : {NoList, <<[isDict |-> TRUE, title |-> <<"t">>, url |-> <<"u">>,
                              text |-> <<"b">>, score |-> "num"]>>},
        documents : {NoList, <<>>}, pad : {0, RAW_JSON_LIMIT}]

\* A helper call: drawn in the initial state, applied by the action of its name.
Pending(name, arg) == [fn |-> name, arg |-> arg, done |-> FALSE, ret |-> <<>>]

Returned(ret) == [call EXCEPT !.done = TRUE, !.ret = ret]

Called(name) == call.fn = name /\ call.done

CallSanitizeSexual ==
  /\ call.fn = "sanitize_sexual_text" /\ ~call.done
  /\ call' = Returned(sanitize_sexual_text(call.arg))
  /\ UNCHANGED <<thread, turn, out>>

CallSanitizeViolent ==
  /\ call.fn = "sanitize_violent_text" /\ ~call.done
  /\ call' = Returned(sanitize_violent_text(call.arg))
  /\ UNCHANGED <<thread, turn, out>>

CallToolDefinitionsForRole ==
  /\ call.fn = "tool_definitions_for_role" /\ ~call.done
  /\ call' = Returned(tool_definitions_for_role(call.arg.role_id,
                                                call.arg.allow_canvas_tools))
  /\ UNCHANGED <<thread, turn, out>>

CallAutoragNormalizeResult ==
  /\ call.fn = "autorag_normalize_result" /\ ~call.done
  /\ call' = Returned(autorag_normalize_result(call.arg))
  /\ UNCHANGED <<thread, turn, out>>

\* The values DEFAULT_ROLE_ID may have: a role with tools and a role without.
DefaultRoleChoices == {"storyboard_artist", "art_director"}

NoCall == [fn |-> "none", done |-> TRUE]

NoTurn == [kind |-> "none"]

InitThread ==
  thread \in [default_role : DefaultRoleChoices, agent_loop_count : {0}]

InitHelpers ==
  /\ call \in {Pending("tool_definitions_for_role", a) :
                 a \in [role_id : RoleIdInputs, allow_canvas_tools : BOOLEAN]}
            \cup {Pending("autorag_normalize_result", r) : r \in KbResults}
  /\ InitThread
  /\ turn = NoTurn
  /\ out = NoTurn

NextHelpers ==
  \/ CallToolDefinitionsForRole
  \/ CallAutoragNormalizeResult

SpecHelpers == InitHelpers /\ [][NextHelpers]_vars

InitSanitize ==
  /\ \/ \E n \in 0..MaxTextLen : \E t \in [1..n -> SexualAlphabet] :
          call = Pending("sanitize_sexual_text", t)
     \/ \E t \in PornTexts : call = Pending("sanitize_sexual_text", t)
     \/ \E n \in 0..MaxTextLen : \E t \in [1..n -> ViolentAlphabet] :
          call = Pending("sanitize_violent_text", t)
  /\ thread = [default_role |-> "storyboard_artist", agent_loop_count |-> 0]
  /\ turn = NoTurn
  /\ out = NoTurn

NextSanitize ==
  \/ CallSanitizeSexual
  \/ CallSanitizeViolent

SpecSanitize == InitSanitize /\ [][NextSanitize]_vars

-----------------------------------------------------------------------------
(* finalize_answer, called on bounded turns.  A turn is                    *)
(*   [provider, llm, text, calls, classifier, messages, nodes, allow,      *)
(*    active_role, hard_turn_cap]:                                         *)
(* the provider and the outcome of its call, the text and the tool calls   *)
(* the model streamed, the outcome of the safety classifier, the messages  *)
(* and the canvas nodes of the state, state.get("allow_canvas_tools"),     *)
(* state.get("active_role") and the configured hard_max_turn_loops.        *)

\* the longest list of tool calls in the enumerated proposals
MaxCalls == 2

\* the number of finalize_answer calls made on one thread
MaxTurns == 2

Human(content) == [type |-> "human", content |-> content]
Ai(content) == [type |-> "ai", content |-> content]

StoryboardLabel == <<"jiugongge", "fenjing">>

\* the tool calls a model may propose
SB == CreateNode("m_sb", "image", StoryboardLabel, <<"u88F8", "u4F53", "u65AD", "u80A2", WS>>)
SBPromptOnly == CreateNode("m_sbp", "image", <<"A">>, <<"3x3", "p">>)
SBUnlabelled == CreateNode("m_sbu", "image", <<WS>>, <<"storyboard">>)
NewCharacter == CreateNode("m_ch", "image", <<"juese", "X">>, <<"p">>)
TextToImage == CreateNode("m_t2i", "textToImage", <<"B">>, NoText)
Video(id, seconds, prompt) ==
  [CreateNode(id, "composeVideo", <<"V">>, prompt) EXCEPT !.durationSeconds = seconds]
VideoLong == Video("m_v20", Sec(20), <<"p", WS>>)
RunSB == RunNode("m_rsb", StoryboardLabel)
RunVideo == RunNode("m_rv", <<"V">>)
ConnectCharacter ==
  ConnectNodes("m_conn", <<"juese", "X">>, StoryboardLabel, "out-image", "in-image")
UpdateNode == ToolCall("m_upd", "updateNode")

PolicyPool == {SB, RunSB, Malformed(SB)}

PostPool ==
  {SB, SBPromptOnly, SBUnlabelled, NewCharacter, TextToImage, VideoLong, RunSB, RunVideo,
   ConnectCharacter, UpdateNode, Malformed(SB), Malformed(RunSB), Malformed(ConnectCharacter)}

\* composeVideo calls for the duration rule: durationSeconds, duration, prompt, shots
VideoPool ==
  {VideoLong,
   Video("m_v", Sec(20), NoText),
   [Video("m_v", Sec(20), NoText) EXCEPT !.structured = TRUE],
   Video("m_v", Sec(20), <<"fenduan", "p">>),
   Video("m_v", Sec(15) + 1, <<"p">>),
   Video("m_v", Sec(12) + 1, <<"p">>),
   Video("m_v", Sec(13) + 1, <<"p">>),
   Video("m_v", Sec(15), <<"p">>),
   Video("m_v", Sec(10), <<"p">>),
   Video("m_v", NoNum, <<"p">>),
   [Video("m_v", NoNum, <<WS>>) EXCEPT !.duration = Sec(8), !.structured = TRUE],
   [Video("m_v", Sec(12), <<"p">>) EXCEPT !.duration = Sec(20)],
   [Video("m_v", Sec(20), <<"p">>) EXCEPT !.cfgOk = FALSE]}

VideoCompanions == {SB, RunVideo, Malformed(SB), Malformed(RunSB)}

VideoLists ==
  {<<v>> : v \in VideoPool}
  \cup {<<v, c>> : v \in VideoPool, c \in VideoCompanions}
  \cup {<<c, v>> : v \in VideoPool, c \in VideoCompanions}

\* the outcomes of the safety classifier
ClassifierFailed == [ok |-> FALSE, decision |-> FALLBACK_SAFETY_DECISION]
Classified(d) == [ok |-> TRUE, decision |-> d]
ClassifierOutcomes ==
  {ClassifierFailed,
   Classified(SafetyDecision(FALSE, FALSE, FALSE, FALSE, FALSE, FALSE)),
   Classified(SafetyDecision(TRUE, FALSE, FALSE, FALSE, TRUE, TRUE)),
   Classified(SafetyDecision(FALSE, TRUE, FALSE, FALSE, FALSE, TRUE)),
   Classified(SafetyDecision(FALSE, FALSE, FALSE, TRUE, FALSE, TRUE)),
   Classified(SafetyDecision(FALSE, FALSE, TRUE, FALSE, TRUE, FALSE))}

\* the texts a model may stream
ModelTexts ==
  {<<>>, <<"ok">>, <<"ok", "fence", "tapcanvas_actions", "\n", "act:a", "act:blank", "fence">>}

\* threads: small talk, a request for story directions, a storyboard request, the same
\* after a style was locked, and a confirmed storyboard request
PolicyThreads ==
  {<<Human(<<"hello">>)>>,
   <<Human(<<"xuxie", "tuijian">>)>>,
   <<Human(<<"fenjing">>)>>,
   <<Human(<<"suoding", "fengge", "colon", "riman2D">>), Ai(<<"ok">>), Human(<<"fenjing">>)>>,
   <<Human(<<"queren", "suoding", "fenjing">>)>>}

PostThreads ==
  {<<Human(<<"hello">>)>>,
   <<Human(<<"xuxie">>)>>,
   <<Human(<<"queren", "suoding", "fenjing">>)>>}

\* canvases: empty, one finished character image, and a finished storyboard with
\* three finished subject images and one that failed
Canvases ==
  {<<>>,
   <<CanvasNode(<<"juese", "Y">>, "image", "success", TRUE)>>,
   <<CanvasNode(<<"jiugongge", "fenjing", "1">>, "image", "success", TRUE),
     CanvasNode(<<"juese", "X">>, "image", "success", TRUE),
     CanvasNode(<<"daoju">>, "textToImage", "success", TRUE),
     CanvasNode(<<"Fox">>, "image", "error", TRUE),
     CanvasNode(<<"beijing">>, "mosaic", "success", TRUE)>>}

\* what the rules read besides the tool calls: every thread on every canvas with an
\* empty model text, and every thread on the empty canvas with a text that asks for
\* the next step
PostContexts ==
  [messages : PostThreads, nodes : Canvases, text : {<<>>}]
  \cup [messages : PostThreads, nodes : {<<>>}, text : {<<"xiayibu">>}]

Turn(provider, llm, text, calls, classifier, messages, nodes, allow, role, cap) ==
  [kind |-> "turn", provider |-> provider, llm |-> llm, text |-> text, calls |-> calls,
   classifier |-> classifier, messages |-> messages, nodes |-> nodes, allow |-> allow,
   active_role |-> role, hard_turn_cap |-> cap]

AllowValues == {"true", "false", "missing"}

\* turns for the role filter, the safety filter and the gates
PolicyTurn ==
  \E n \in 0..MaxCalls : \E calls \in [1..n -> PolicyPool] :
  \E classifier \in ClassifierOutcomes : \E text \in ModelTexts :
  \E messages \in PolicyThreads : \E allow \in AllowValues :
    turn = Turn("openai", "ok", text, calls, classifier, messages, <<>>, allow,
                "storyboard_artist", DEFAULT_HARD_TURN_CAP)

\* turns for the role filter: a role without canvas tools, an unknown and a missing role
RoleTurn ==
  \E n \in 0..MaxCalls : \E calls \in [1..n -> PolicyPool \cup {UpdateNode, VideoLong}] :
  \E allow \in AllowValues : \E role \in {"art_director", "unknown_role", ""} :
    turn = Turn("openai", "ok", <<"ok">>, calls, ClassifierFailed, <<Human(<<"hello">>)>>,
                <<>>, allow, role, DEFAULT_HARD_TURN_CAP)

\* turns for the rules applied to the tool calls that pass the gates
PostTurn ==
  \E n \in 0..MaxCalls : \E calls \in [1..n -> PostPool] :
  \E context \in PostContexts :
    turn = Turn("openai", "ok", context.text, calls, ClassifierFailed,
                context.messages, context.nodes, "true",
                "storyboard_artist", DEFAULT_HARD_TURN_CAP)

\* turns for the composeVideo rule
VideoTurn ==
  \E calls \in VideoLists : \E classifier \in ClassifierOutcomes :
    turn = Turn("openai", "ok", <<"ok">>, calls, classifier, <<Human(<<"hello">>)>>, <<>>,
                "missing", "", DEFAULT_HARD_TURN_CAP)

\* turns whose model call fails, turns of the other provider, and turns on a thread
\* with a low hard_max_turn_loops (reached on the first or on the last turn)
OtherTurn ==
  \E pl \in {<<"openai", "ValueError">>, <<"openai", "OpenAIError">>,
             <<"openai", "Exception">>, <<"gemini", "ok">>, <<"gemini", "ValueError">>,
             <<"openai", "ok">>} :
  \E text \in ModelTexts : \E messages \in PolicyThreads : \E allow \in AllowValues :
  \E cap \in {1, MaxTurns} :
    turn = Turn(pl[1], pl[2], text, <<SB, RunSB>>, ClassifierFailed, messages, <<>>, allow,
                "storyboard_artist", cap)

\* an image node that carries the label of the video node
\* a call whose name is no canvas tool
ForeignTool == ToolCall("m_del", "deleteNode")

ImageNamedAsVideo == CreateNode("m_iv", "image", <<"V">>, <<"p">>)

\* longer proposals for the last rules: an image and a video workflow with a run of
\* the video, the same with a call whose arguments are not a mapping, an image under
\* the label of the video, an image the model runs twice, an image created twice,
\* and proposals with a call that is no canvas tool
WorkflowLists ==
  {<<TextToImage, VideoLong, RunVideo>>,
   <<TextToImage, VideoLong, RunVideo, Malformed(RunSB)>>,
   <<ImageNamedAsVideo, VideoLong, RunVideo>>,
   <<TextToImage, RunNode("m_rb1", <<"B">>), RunNode("m_rb2", <<"B">>)>>,
   <<TextToImage, TextToImage>>,
   <<ForeignTool>>, <<TextToImage, ForeignTool>>}

\* turns for the premature-run rule, the auto-run rule and the role filter
WorkflowTurn ==
  \E calls \in WorkflowLists : \E role \in {"storyboard_artist", "character_designer"} :
    turn = Turn("openai", "ok", <<"ok">>, calls, ClassifierFailed, <<Human(<<"hello">>)>>,
                <<>>, "true", role, DEFAULT_HARD_TURN_CAP)

\* decisions that flag violence together with other categories: sexual content to
\* sanitize, nudity and gore to block, and gore and violence alone
MixedDecisions ==
  {Classified(SafetyDecision(TRUE, FALSE, FALSE, TRUE, FALSE, TRUE)),
   Classified(SafetyDecision(FALSE, TRUE, TRUE, FALSE, TRUE, TRUE)),
   Classified(SafetyDecision(FALSE, FALSE, TRUE, TRUE, FALSE, TRUE))}

\* turns for the sanitizing branches: a reply text and a prompt with a violent term
SafetyTurn ==
  \E classifier \in MixedDecisions : \E text \in {<<>>, <<"u65AD", "u80A2">>} :
  \E calls \in {<<SB>>, <<SB, VideoLong>>} :
    turn = Turn("openai", "ok", text, calls, classifier, <<Human(<<"hello">>)>>,
                <<>>, "true", "storyboard_artist", DEFAULT_HARD_TURN_CAP)

InitTurn ==
  /\ \/ PolicyTurn \/ RoleTurn \/ PostTurn \/ VideoTurn \/ OtherTurn \/ WorkflowTurn
     \/ SafetyTurn
  /\ thread = [default_role |-> "storyboard_artist", agent_loop_count |-> 0]
  /\ call = NoCall
  /\ out = NoTurn

\* One call of finalize_answer on the thread; its agent_loop_count is stored unless
\* the call raised.
FinalizeAnswer ==
  /\ turn.kind = "turn"
  /\ thread.agent_loop_count < MaxTurns
  /\ out' = finalize_answer(turn, thread.agent_loop_count)
  /\ thread' = [thread EXCEPT !.agent_loop_count =
                  IF out'.kind = "raised" THEN @ ELSE @ + 1]
  /\ UNCHANGED <<call, turn>>

NextTurn == FinalizeAnswer

SpecTurn == InitTurn /\ [][NextTurn]_vars

Sent == out.kind = "message"


-----------------------------------------------------------------------------
(* C6: the output of _sanitize_sexual_text contains no key of its table,   *)
(* the output of _sanitize_violent_text contains no key of its table, and  *)
(* applying the same sanitizer again returns the text unchanged.           *)
C6_SanitizeIdempotent ==
  /\ Called("sanitize_sexual_text") =>
       /\ ~ContainsAny(call.ret, TableKeys(SexualReplacements))
       /\ sanitize_sexual_text(call.ret) = call.ret
  /\ Called("sanitize_violent_text") =>
       /\ ~ContainsAny(call.ret, TableKeys(ViolentReplacements))
       /\ sanitize_violent_text(call.ret) = call.ret

\* a text holding a key was sanitized, and the output differs from the input
C6_Witness ==
  /\ Called("sanitize_violent_text")
  /\ ContainsAny(call.arg, TableKeys(ViolentReplacements))
  /\ call.ret # call.arg

-----------------------------------------------------------------------------
(* C2: for every role id and permission flag, _tool_definitions_for_role   *)
(* returns only tool definitions whose name is in the allow-list of the    *)
(* resolved role, and returns the empty list when the flag is false.       *)
C2_ToolDefinitionsWithinAllowList ==
  Called("tool_definitions_for_role") =>
    LET resolved == normalize_role_id(OrDefaultRole(call.arg.role_id))
    IN  /\ \A i \in 1..Len(call.ret) :
             call.ret[i].name \in ROLE_ALLOWED_CANVAS_TOOLS[resolved]
        /\ (~call.arg.allow_canvas_tools => call.ret = <<>>)

\* an unknown role id resolved to a default role with tools, gate open: four tools
C2_Witness ==
  /\ Called("tool_definitions_for_role")
  /\ call.arg.allow_canvas_tools
  /\ call.arg.role_id = "unknown_role"
  /\ Len(call.ret) = 4

NoSourcesField(result) ==
  result.sources = NoList /\ result.results = NoList /\ result.documents = NoList

-----------------------------------------------------------------------------
(* Claims about finalize_answer refer to the last call: turn holds its     *)
(* inputs and out the message it returned.                                 *)

OpenAITurn == Sent /\ turn.provider = "openai" /\ turn.llm = "ok"

FinalCalls == out.tool_calls

\* positions of the final list whose call carries the given id
Positions(id) == {i \in 1..Len(FinalCalls) : FinalCalls[i].id = id}

\* the model's call that a final call came from (same id)
RequestOf(c) == turn.calls[CHOOSE i \in 1..Len(turn.calls) : turn.calls[i].id = c.id]

\* final composeVideo creations proposed by the model, with a config object
ModelVideos ==
  {i \in 1..Len(FinalCalls) :
     /\ IsComposeVideoCreate(FinalCalls[i]) /\ FinalCalls[i].argsOk /\ FinalCalls[i].cfgOk
     /\ \E j \in 1..Len(turn.calls) : turn.calls[j].id = FinalCalls[i].id}

\* the list that the storyboard detection of lines 1874-1904 read
AtStoryboard == out.trace.storyboard_calls

\* the duration rule ran: the list was not empty and no earlier rule raised
ReachedClamp == out.trace.clamp_ran

\* the video synthesis ran: the list was not empty and no earlier rule raised
ReachedSynthesis == out.trace.synthesis_ran

EndsWith(s, k) ==
  IsStr(s) /\ Len(s) >= Len(k) /\ SubSeq(s, Len(s) - Len(k) + 1, Len(s)) = k

-----------------------------------------------------------------------------
(* C1: whenever the state of the turn has allow_canvas_tools = False, the  *)
(* tool-call list of the outgoing message is empty, whatever the model     *)
(* proposed, the user said and the canvas holds.                           *)
C1_NoToolCallsWithoutPermission ==
  (Sent /\ turn.allow = "false") => out.tool_calls = <<>>

\* permission denied on a turn whose model proposed calls that the role allows
C1_Witness ==
  /\ OpenAITurn /\ turn.allow = "false"
  /\ turn.active_role = "storyboard_artist"
  /\ turn.calls = <<SB, RunSB>>
  /\ classify_safety(turn.classifier).should_block = FALSE
  /\ LastUserText(turn.messages) = <<"hello">>
  /\ out.tool_calls = <<>>

-----------------------------------------------------------------------------
(* C3 as stated: whenever the proposed calls contain a createNode of type  *)
(* image whose label or prompt holds a grid-storyboard keyword and no      *)
(* createNode of type composeVideo, the final list holds exactly one added *)
(* composeVideo createNode and exactly one added connectNodes from the     *)
(* storyboard image to it, the create before the connect, and both after   *)
(* the runNode call of the storyboard image.                               *)
C3_AsStated ==
  (/\ OpenAITurn
   /\ \E i \in 1..Len(turn.calls) : ~BadArgs(turn.calls[i]) /\ IsGridCreate(turn.calls[i])
   /\ ~\E i \in 1..Len(turn.calls) :
         ~BadArgs(turn.calls[i]) /\ IsComposeVideoCreate(turn.calls[i]))
  => /\ Cardinality(Positions("auto_create_video")) = 1
     /\ Cardinality(Positions("auto_connect")) = 1
     /\ \A v \in Positions("auto_create_video") : \A c \in Positions("auto_connect") :
          /\ v < c
          /\ IsComposeVideoCreate(FinalCalls[v])
          /\ FinalCalls[c].targetNodeId = LabelOf(FinalCalls[v])
          /\ \E r \in 1..Len(FinalCalls) :
               /\ TargetsRun(FinalCalls[r], FinalCalls[c].sourceNodeId)
               /\ r < v

(* C3 amended: when the list that reaches the storyboard step has a first  *)
(* keyword-bearing image createNode with a non-empty label and no          *)
(* composeVideo createNode, the final list holds exactly one added         *)
(* composeVideo createNode (15 s, labelled after the storyboard) directly  *)
(* followed by exactly one added connectNodes from the storyboard to it;   *)
(* both come after the storyboard's createNode and after every runNode of  *)
(* the storyboard that the model proposed, and before a runNode that       *)
(* auto-run synthesizes for it.  Nothing is added when that label is       *)
(* blank, when a composeVideo createNode is present, when the gates        *)
(* emptied the list, or when an earlier rule raised.                       *)
C3_VideoSynthesized ==
  Sent =>
    LET label == storyboard_image_label(AtStoryboard)
        V == Positions("auto_create_video")
        C == Positions("auto_connect")
    IN  IF ReachedSynthesis /\ label # <<>> /\ ~has_compose_video(AtStoryboard)
        THEN /\ Cardinality(V) = 1 /\ Cardinality(C) = 1
             /\ \A v \in V : \A c \in C :
                  /\ c = v + 1
                  /\ IsComposeVideoCreate(FinalCalls[v])
                  /\ LabelOf(FinalCalls[v]) = video_label_for(label)
                  /\ LabelOf(FinalCalls[v]) # label
                  /\ FinalCalls[v].durationSeconds = Sec(MAX_DURATION_S)
                  /\ IsConnect(FinalCalls[c])
                  /\ FinalCalls[c].sourceNodeId = label
                  /\ FinalCalls[c].targetNodeId = video_label_for(label)
                  /\ \E i \in 1..(v - 1) : IsGridCreate(FinalCalls[i])
                                          /\ LabelOf(FinalCalls[i]) = label
                  /\ \A i \in 1..Len(FinalCalls) :
                       TargetsRun(FinalCalls[i], label) =>
                         IF FinalCalls[i].id = "auto_run" THEN i > c ELSE i < v
        ELSE V = {} /\ C = {}

\* a storyboard image proposed without a runNode: the pair is added, and the
\* synthesized runNode of the storyboard follows it
C3_Witness ==
  /\ OpenAITurn /\ ReachedSynthesis
  /\ turn.calls = <<SBPromptOnly>>
  /\ Cardinality(Positions("auto_create_video")) = 1
  /\ \E i \in Positions("auto_run") :
       /\ TargetsRun(FinalCalls[i], <<"A">>)
       /\ \A c \in Positions("auto_connect") : c < i

-----------------------------------------------------------------------------
(* C4 as stated: every final composeVideo createNode with a numeric        *)
(* requested duration d (durationSeconds, or duration when that is absent) *)
(* stores v with 10 <= v <= 15: d < 10 gives 10, d > 15 gives 15, and      *)
(* 10 <= d <= 15 gives d.                                                  *)
C4_AsStated ==
  Sent =>
    \A i \in ModelVideos :
      LET d == RequestedDuration(RequestOf(FinalCalls[i]))
          v == FinalCalls[i].durationSeconds
      IN  d # NoNum =>
            /\ Sec(MIN_DURATION_S) <= v /\ v <= Sec(MAX_DURATION_S)
            /\ v = (IF d < Sec(MIN_DURATION_S) THEN Sec(MIN_DURATION_S)
                    ELSE IF d > Sec(MAX_DURATION_S) THEN Sec(MAX_DURATION_S) ELSE d)

(* C4 amended: for a final composeVideo createNode with a config object    *)
(* and a numeric requested duration d, when the duration rule ran the      *)
(* stored durationSeconds is a whole number v of seconds with              *)
(* 10 <= v <= 15: 10 for d < 10, 15 for d > 15, and otherwise d rounded to *)
(* the nearest whole second, a half going to the even neighbour (12.5      *)
(* gives 12, 13.5 gives 14); when an earlier rule raised, the rule did not *)
(* run and durationSeconds is as the model gave it.                        *)
C4_DurationClamped ==
  Sent =>
    \A i \in ModelVideos :
      LET r == RequestOf(FinalCalls[i])
          d == RequestedDuration(r)
          v == FinalCalls[i].durationSeconds
      IN  d # NoNum =>
            IF ReachedClamp
            THEN /\ Sec(MIN_DURATION_S) <= v /\ v <= Sec(MAX_DURATION_S)
                 /\ v % Sec(1) = 0
                 /\ d < Sec(MIN_DURATION_S) => v = Sec(MIN_DURATION_S)
                 /\ d > Sec(MAX_DURATION_S) => v = Sec(MAX_DURATION_S)
                 /\ (Sec(MIN_DURATION_S) <= d /\ d <= Sec(MAX_DURATION_S)) =>
                      /\ v - d \in {-1, 0, 1}
                      /\ (v # d => (v \div Sec(1)) % 2 = 0)
            ELSE v = r.durationSeconds

\* 12.5 seconds were requested and 12 are stored
C4_Witness ==
  /\ OpenAITurn /\ ReachedClamp
  /\ \E i \in ModelVideos :
       /\ RequestedDuration(RequestOf(FinalCalls[i])) = Sec(12) + 1
       /\ FinalCalls[i].durationSeconds = Sec(12)

-----------------------------------------------------------------------------
-----------------------------------------------------------------------------
(* C8: whenever the safety decision of the turn has should_block and       *)
(* (sexual or nudity), the outgoing message carries no tool call: the      *)
(* proposed calls are discarded and no later rule synthesizes one.         *)
C8_BlockedTurnHasNoToolCalls ==
  (/\ OpenAITurn
   /\ classify_safety(turn.classifier).should_block
   /\ classify_safety(turn.classifier).sexual \/ classify_safety(turn.classifier).nudity)
  => out.tool_calls = <<>>

\* a blocked turn whose calls would otherwise have passed the filter and the gates
C8_Witness ==
  /\ OpenAITurn
  /\ classify_safety(turn.classifier).should_block
  /\ classify_safety(turn.classifier).sexual
  /\ turn.allow = "true" /\ turn.active_role = "storyboard_artist"
  /\ LastUserText(turn.messages) = <<"hello">>
  /\ turn.calls = <<SB, RunSB>>
  /\ out.tool_calls = <<>>
  /\ out.content = SAFETY_REFUSAL_TEXT

-----------------------------------------------------------------------------
(* C9: the quick replies attached by a policy rule during the turn (safety *)
(* refusal, story branch, lock confirmation, supervisor, new character)    *)
(* are the quick_replies of the outgoing message.                          *)
C9_PolicyRepliesDelivered ==
  (Sent /\ out.policy_replies # NoReplies) => out.quick_replies = out.policy_replies

-----------------------------------------------------------------------------
(* C10: when the safety classifier call fails nothing is blocked, and      *)
(* every createNode prompt that leaves the turn has been sanitized: no key *)
(* of a substitution table is left in it, or its negativePrompt carries    *)
(* the safety tokens.                                                      *)
C10_SafeButSanitize ==
  (OpenAITurn /\ ~turn.classifier.ok) =>
    /\ out.content # SAFETY_REFUSAL_TEXT
    /\ \A i \in 1..Len(FinalCalls) :
         (IsCreate(FinalCalls[i]) /\ FinalCalls[i].argsOk /\ FinalCalls[i].cfgOk
          /\ IsStr(FinalCalls[i].prompt)) =>
           \/ ~ContainsAny(FinalCalls[i].prompt,
                           TableKeys(SexualReplacements) \cup TableKeys(ViolentReplacements))
           \/ /\ IsStr(FinalCalls[i].negativePrompt)
              /\ \/ Contains(FinalCalls[i].negativePrompt, SEXUAL_NEGATIVE)
                 \/ Contains(FinalCalls[i].negativePrompt, VIOLENT_NEGATIVE)

-----------------------------------------------------------------------------
(* select_role (lines 950-1057) and the structured router call             *)
(* _call_openai_structured (lines 649-726).  In the texts of this part     *)
(* every token is one character, so that Len is Python's len.              *)

\* RoleDecision as the router returns it: role_id, reason ("" when empty),
\* allow_canvas_tools and tool_tier ("" stands for None and "")
RoleDecision(role_id, reason, allow_canvas_tools, tool_tier) ==
  [role_id |-> role_id, reason |-> reason, allow_canvas_tools |-> allow_canvas_tools,
   tool_tier |-> tool_tier]

\* role ids in the order of role_map().items()
RoleOrder ==
  <<"storyboard_artist", "character_designer", "scene_designer", "art_director",
    "screenwriter", "product_designer", "music_director", "magician">>

\* role["name"].lower() of a role, as one token of the raw output
RoleNameLower ==
  [rid \in RoleRegistry |->
     CASE rid = "storyboard_artist" -> "name_storyboard_artist"
       [] rid = "character_designer" -> "name_character_designer"
       [] rid = "scene_designer" -> "name_scene_designer"
       [] rid = "art_director" -> "name_art_director"
       [] rid = "screenwriter" -> "name_screenwriter"
       [] rid = "product_designer" -> "name_product_designer"
       [] rid = "music_director" -> "name_music_director"
       [] OTHER -> "name_magician"]

\* raw.lower() on the tokens of a router output
RouterLowerToken(tok) ==
  CASE tok = "ART_DIRECTOR" -> "art_director"
    [] tok = "Name_Magician" -> "name_magician"
    [] tok = "RAG" -> "rag"
    [] tok = "WEB" -> "web"
    [] tok = "Canvas" -> "canvas"
    [] OTHER -> tok

RouterLower(raw) == [i \in 1..Len(raw) |-> RouterLowerToken(raw[i])]

\* lines 712-715: the first role of the registry whose id or name is in the output
RECURSIVE FirstRoleIn(_, _)
FirstRoleIn(raw_lower, i) ==
  IF i > Len(RoleOrder) THEN ""
  ELSE IF Contains(raw_lower, <<RoleOrder[i]>>)
          \/ Contains(raw_lower, <<RoleNameLower[RoleOrder[i]]>>)
       THEN RoleOrder[i]
       ELSE FirstRoleIn(raw_lower, i + 1)

\* What a router call gives: it raises, or it streams a text that is either the JSON
\* of a RoleDecision (json, decision) or some other text (raw).
RouterOutput(kind, json, decision, raw) ==
  [kind |-> kind, json |-> json, decision |-> decision, raw |-> raw]

NoDecision == RoleDecision("", "", FALSE, "")

RouterRaises == RouterOutput("raises", FALSE, NoDecision, <<>>)

RouterJson(decision) == RouterOutput("text", TRUE, decision, <<>>)

RouterRaw(raw) == RouterOutput("text", FALSE, NoDecision, raw)

\* lines 654-692: the text the router streamed.  r.client_ok: the API key is set;
\* r.first, r.second: the schema-constrained call and the plain retry.  The text is
\* empty when the client is missing or both calls raise.
StructuredText(r) ==
  IF ~r.client_ok THEN [text |-> RouterRaw(<<>>), failed |-> TRUE]
  ELSE IF r.first.kind # "raises" THEN [text |-> r.first, failed |-> FALSE]
  ELSE IF r.second.kind # "raises" THEN [text |-> r.second, failed |-> TRUE]
  ELSE [text |-> RouterRaw(<<>>), failed |-> TRUE]

\* lines 707-725: the RoleDecision rebuilt from an output that did not validate; the
\* fields it does not set take the defaults of the schema
FallbackRoleDecision(raw, failed, defaults) ==
  LET stripped == Strip(raw)
      chosen_id == FirstRoleIn(RouterLower(stripped), 1)
  IN  RoleDecision(normalize_role_id(OrDefaultRole(chosen_id)),
                   IF failed /\ stripped = <<>> THEN "fallback_error" ELSE "fallback_parse",
                   defaults.allow_canvas_tools, defaults.tool_tier)

\* _call_openai_structured(model, prompt, RoleDecision)
call_openai_structured(r, defaults) ==
  LET got == StructuredText(r)
  IN  IF got.text.json THEN got.text.decision
      ELSE FallbackRoleDecision(got.text.raw, got.failed, defaults)

\* the creation keywords of lines 1012-1029
CREATION_HINTS ==
  {<<"u751F", "u6210">>, <<"u521B", "u5EFA">>, <<"u753B">>, <<"u505A">>, <<"u5E2E">>,
   <<"u7EED", "u5199">>, <<"u5206", "u955C">>, <<"u6545", "u4E8B", "u677F">>,
   <<"u4E5D", "u5BAB", "u683C">>, <<"u89C6", "u9891">>, <<"u56FE", "u7247">>,
   <<"u6539">>, <<"u8C03", "u6574">>, <<"u4FEE", "u6539">>, <<"u8FDE", "u63A5">>,
   <<"u8FD0", "u884C">>}

\* len(t_compact) <= 8
SHORT_TEXT_MAX == 8

\* " ".join(t.split()): runs of whitespace become one blank, none at either end
RECURSIVE CollapseFrom(_, _)
CollapseFrom(t, i) ==
  IF i > Len(t) THEN <<>>
  ELSE IF t[i] \in Whitespace
       THEN (IF i > 1 /\ t[i - 1] \in Whitespace THEN <<>> ELSE <<WS>>)
            \o CollapseFrom(t, i + 1)
       ELSE <<t[i]>> \o CollapseFrom(t, i + 1)

Collapse(t) == CollapseFrom(Strip(t), 1)

\* The length test with the bound left out of the short texts.
IsShortLowInformationBelowBound(last_user_text) ==
  LET t_compact == Collapse(last_user_text)
  IN  /\ t_compact # <<>>
      /\ Len(t_compact) < SHORT_TEXT_MAX
      /\ ~ContainsAny(t_compact, CREATION_HINTS)

\* lines 1009-1032: the last user text is short and names no creation
IsShortLowInformation(last_user_text) ==
  LET t_compact == Collapse(last_user_text)
  IN  /\ t_compact # <<>>
      /\ Len(t_compact) <= SHORT_TEXT_MAX
      /\ ~ContainsAny(t_compact, CREATION_HINTS)

\* lines 990-998: the tier and the permission made exclusive
EnforceTiers(allow_canvas_tools, tool_tier) ==
  LET tier1 == IF allow_canvas_tools THEN "canvas"
               ELSE IF RouterLowerToken(tool_tier) = "canvas" THEN "none"
               ELSE tool_tier
  IN  IF RouterLowerToken(tier1) \in {"web", "rag"}
      THEN [allow_canvas_tools |-> FALSE, tool_tier |-> "rag", reason |-> "rag"]
      ELSE [allow_canvas_tools |-> allow_canvas_tools, tool_tier |-> tier1,
            reason |-> "model"]

\* What select_role returns, or that it raised.
RoleState(result, active_role, reason, allow_canvas_tools, allow_reason, tool_tier) ==
  [raised |-> FALSE, result |-> result, active_role |-> active_role,
   active_role_reason |-> reason, allow_canvas_tools |-> allow_canvas_tools,
   allow_canvas_tools_reason |-> allow_reason, active_tool_tier |-> tool_tier]

SelectRoleRaised == [RoleState(NoDecision, "", "", FALSE, "", "") EXCEPT !.raised = TRUE]

\* lines 980-1057, given the RoleDecision of the router
SelectRoleFrom(result, messages) ==
  LET tiers == EnforceTiers(result.allow_canvas_tools,
                            IF result.tool_tier = "" THEN "none" ELSE result.tool_tier)
      short == tiers.allow_canvas_tools /\ IsShortLowInformation(LastUserText(messages))
  IN  RoleState(result, resolve_role(result.role_id),
                IF result.reason = "" THEN "default" ELSE result.reason,
                tiers.allow_canvas_tools /\ ~short,
                IF short THEN "short" ELSE tiers.reason,
                tiers.tool_tier)

\* select_role(state, config).  a.provider: llm_provider; a.router: the router calls;
\* a.defaults: the defaults of the RoleDecision schema; a.messages: the thread.  On
\* the Gemini path (lines 971-978) a missing key, a failed call and an output that is
\* no RoleDecision all raise out of select_role.
select_role(a) ==
  IF a.provider = "openai"
  THEN SelectRoleFrom(call_openai_structured(a.router, a.defaults), a.messages)
  ELSE IF ~a.router.client_ok \/ a.router.first.kind = "raises" \/ ~a.router.first.json
  THEN SelectRoleRaised
  ELSE SelectRoleFrom(a.router.first.decision, a.messages)

-----------------------------------------------------------------------------
(* select_role, called on bounded router outcomes and threads.             *)

\* the number of pieces a user text of the router harness is made of
MaxUserPieces == 3

\* pieces of user texts: letters, blanks, a line break, and the creation keywords
\* u753B and u7EED u5199
UserPieces ==
  {<<"a", "a", "a", "a">>, <<"a", "a", "a">>, <<WS, WS>>, <<"\n">>, <<"u753B">>,
   <<"u7EED", "u5199">>}

UserTexts == {Flatten(ps) : ps \in TextsOver(UserPieces, MaxUserPieces)}

\* the tool tiers a router may name
RouterTiers == {"none", "canvas", "rag", "web", "RAG", ""}

RouterDecisions ==
  {RoleDecision(rid, reason, allow, tier) :
     rid \in {"storyboard_artist", "unknown_role"}, reason \in {"", "given"},
     allow \in BOOLEAN, tier \in RouterTiers}

\* outputs that are no RoleDecision
RawOutputs ==
  {RouterRaw(raw) :
     raw \in {<<>>, <<WS>>, <<"x">>, <<"ART_DIRECTOR">>, <<"magician", "art_director">>,
              <<"x", "Name_Magician", "scene_designer", WS>>}}

FailingOutputs == {RouterRaises} \cup RawOutputs

SchemaDefaults == [allow_canvas_tools : BOOLEAN, tool_tier : {"none", "rag", "canvas"}]

RouterThreads ==
  {<<>>,
   <<Human(<<"a", "a">>)>>,
   <<Human(<<"u751F", "u6210", "a", "a", "a", "a", "a", "a", "a", "a">>)>>,
   <<Human(<<"a", "a", "a", "a", "a", "a", "a", "a", "a">>), Ai(<<"a">>)>>}

RouterCall(provider, client_ok, first, second, defaults, messages) ==
  [provider |-> provider,
   router |-> [client_ok |-> client_ok, first |-> first, second |-> second],
   defaults |-> defaults, messages |-> messages]

\* a router that answers with a decision, on every user text
DecidedOnText ==
  \E provider \in {"openai", "gemini"} : \E allow \in BOOLEAN : \E tier \in RouterTiers :
  \E t \in UserTexts :
    call = Pending("select_role",
                   RouterCall(provider, TRUE,
                              RouterJson(RoleDecision("storyboard_artist", "given",
                                                      allow, tier)),
                              RouterRaises,
                              [allow_canvas_tools |-> TRUE, tool_tier |-> "none"],
                              <<Human(t)>>))

\* every decision on the fixed threads
DecidedOnThread ==
  \E provider \in {"openai", "gemini"} : \E d \in RouterDecisions :
  \E messages \in RouterThreads :
    call = Pending("select_role",
                   RouterCall(provider, TRUE, RouterJson(d), RouterRaises,
                              [allow_canvas_tools |-> TRUE, tool_tier |-> "none"],
                              messages))

\* a router whose call fails or whose output is no RoleDecision
Undecided ==
  \E provider \in {"openai", "gemini"} : \E client_ok \in BOOLEAN :
  \E first \in FailingOutputs :
  \E second \in FailingOutputs \cup {RouterJson(RoleDecision("magician", "", FALSE, "rag"))} :
  \E defaults \in SchemaDefaults : \E messages \in RouterThreads :
    call = Pending("select_role",
                   RouterCall(provider, client_ok, first, second, defaults, messages))

CallSelectRole ==
  /\ call.fn = "select_role" /\ ~call.done
  /\ call' = Returned(select_role(call.arg))
  /\ UNCHANGED <<thread, turn, out>>

InitSelectRole ==
  /\ DecidedOnText \/ DecidedOnThread \/ Undecided
  /\ InitThread
  /\ turn = NoTurn
  /\ out = NoTurn

NextSelectRole == CallSelectRole

SpecSelectRole == InitSelectRole /\ [][NextSelectRole]_vars

-----------------------------------------------------------------------------
(* Claims about select_role refer to the call drawn in the initial state:  *)
(* call.arg holds its inputs and call.ret what it returned.                *)

SelectRoleReturned == Called("select_role") /\ ~call.ret.raised

(* C11: after select_role, whenever the decision of the router carries a   *)
(* retrieval tier (rag or web), the returned allow_canvas_tools is False,  *)
(* whatever the router's own allow_canvas_tools flag is.                   *)
C11_RetrievalTierDisablesCanvas ==
  (SelectRoleReturned /\ RouterLowerToken(call.ret.result.tool_tier) \in {"rag", "web"})
    => call.ret.allow_canvas_tools = FALSE

(* C12: after select_role, if the last user message, with whitespace       *)
(* collapsed, is non-empty, at most 8 characters long and contains none of *)
(* the creation keywords, the returned allow_canvas_tools is False,        *)
(* whatever the router decided.                                            *)
C12_ShortUtteranceDisablesCanvas ==
  SelectRoleReturned =>
    LET t == Collapse(LastUserText(call.arg.messages))
    IN  (t # <<>> /\ Len(t) <= SHORT_TEXT_MAX /\ ~ContainsAny(t, CREATION_HINTS))
          => call.ret.allow_canvas_tools = FALSE

\* the router allowed the canvas on a text of nine characters that collapses to eight
C12_Witness ==
  /\ SelectRoleReturned
  /\ call.ret.result.allow_canvas_tools
  /\ call.ret.result.tool_tier = "none"
  /\ Len(LastUserText(call.arg.messages)) = SHORT_TEXT_MAX + 1
  /\ Len(Collapse(LastUserText(call.arg.messages))) = SHORT_TEXT_MAX
  /\ call.ret.allow_canvas_tools = FALSE
  /\ call.ret.allow_canvas_tools_reason = "short"

\* no call of the router yields a RoleDecision
NoRoleDecision(a) ==
  IF a.provider = "openai"
  THEN ~StructuredText(a.router).text.json
  ELSE ~a.router.client_ok \/ a.router.first.kind = "raises" \/ ~a.router.first.json

\* the text the router streamed, stripped and lowered, when it streamed one
RawOutputLower(a) ==
  IF a.provider = "openai"
  THEN RouterLower(Strip(StructuredText(a.router).text.raw))
  ELSE RouterLower(Strip(a.router.first.raw))

(* C16: select_role never raises when the router's output is malformed or  *)
(* empty or its call fails, for every llm_provider: it returns the role     *)
(* matched by keyword in the raw output, or else the default role, with a   *)
(* synthetic reason.                                                        *)
C16_SelectRoleNeverRaises ==
  (Called("select_role") /\ NoRoleDecision(call.arg)) =>
    LET matched == FirstRoleIn(RawOutputLower(call.arg), 1)
    IN  /\ ~call.ret.raised
        /\ call.ret.active_role = (IF matched = "" THEN DEFAULT_ROLE_ID ELSE matched)
        /\ call.ret.active_role_reason \in {"fallback_parse", "fallback_error"}

(* C17: after select_role the tier and the permission are consistent:      *)
(* active_tool_tier is one of none, canvas, rag, and it is canvas if and   *)
(* only if allow_canvas_tools is True.                                     *)
C17_TierMatchesPermission ==
  SelectRoleReturned =>
    /\ call.ret.active_tool_tier \in {"none", "canvas", "rag"}
    /\ (call.ret.active_tool_tier = "canvas" <=> call.ret.allow_canvas_tools)


-----------------------------------------------------------------------------
(* _call_autorag_search and kb_retrieve: the knowledge retriever.           *)

\* body[:2000] in the diagnostics of _call_autorag_search
BODY_LIMIT == 2000

\* "[AutoRAG] HTTP <code>: " / "[AutoRAG] qingqiu shibai: " / "[AutoRAG] fei JSON xiangying: "
AUTORAG_TAG == "[AutoRAG]"

HttpDiagnostic(code, body) ==
  <<AUTORAG_TAG, WS, "HTTP", WS, code, ":", WS>> \o Take(body, BODY_LIMIT)

FailureDiagnostic(exc) ==
  <<AUTORAG_TAG, WS, "u8BF7", "u6C42", "u5931", "u8D25", ":", WS>> \o exc

NonJsonDiagnostic(body) ==
  <<AUTORAG_TAG, WS, "u975E", WS, "JSON", WS, "u54CD", "u5E94", ":", WS>>
  \o Take(body, BODY_LIMIT)

\* What urlopen and the read of the response do:
\*   kind "ok"         : a body was read (json tells whether json.loads accepts it;
\*                       result is decoded.get("result") or the decoded value)
\*   kind "http_error" : urllib.error.HTTPError with a code; readable tells whether
\*                       exc.read() works, else the body is str(exc)
\*   kind "failure"    : any other exception (timeout, refused connection, ...)
Transport(kind, code, readable, body, exc, json, result) ==
  [kind |-> kind, code |-> code, readable |-> readable, body |-> body, exc |-> exc,
   json |-> json, result |-> result]

\* {"result": result} for a result that is not a mapping: a mapping without any of
\* the keys the normaliser reads; its dump is the key and the value.
WrappedResult ==
  [isDict |-> TRUE, answer |-> NoText, output |-> NoText, response |-> NoText,
   sources |-> NoList, results |-> NoList, documents |-> NoList, pad |-> 1]

\* The version of the spec's sentence: every failure gives ([], []).
call_autorag_search_silent(endpoint, rag_id, query, transport) ==
  IF Strip(endpoint) = <<>> \/ Strip(rag_id) = <<>> \/ Strip(query) = <<>>
    THEN [snippets |-> <<>>, sources |-> <<>>, raised |-> FALSE]
  ELSE IF transport.kind # "ok" \/ ~transport.json
    THEN [snippets |-> <<>>, sources |-> <<>>, raised |-> FALSE]
  ELSE autorag_normalize_result(IF transport.result.isDict THEN transport.result
                                ELSE WrappedResult)

\* _call_autorag_search(configurable, query): (snippets, sources)
call_autorag_search(endpoint, rag_id, query, transport) ==
  IF Strip(endpoint) = <<>> \/ Strip(rag_id) = <<>> \/ Strip(query) = <<>>
    THEN [snippets |-> <<>>, sources |-> <<>>, raised |-> FALSE]
  ELSE IF transport.kind = "http_error"
    THEN [snippets |-> <<HttpDiagnostic(transport.code,
                           IF transport.readable THEN transport.body ELSE transport.exc)>>,
          sources |-> <<>>, raised |-> FALSE]
  ELSE IF transport.kind = "failure"
    THEN [snippets |-> <<FailureDiagnostic(transport.exc)>>, sources |-> <<>>,
          raised |-> FALSE]
  ELSE IF ~transport.json
    THEN [snippets |-> <<NonJsonDiagnostic(transport.body)>>, sources |-> <<>>,
          raised |-> FALSE]
  ELSE autorag_normalize_result(IF transport.result.isDict THEN transport.result
                                ELSE WrappedResult)

\* configurable.search_provider.lower()
SearchProviderLower(provider) == IF provider = "AutoRAG" THEN "autorag" ELSE provider

\* _get_research_topic_with_summary(state, tail=8); topic is what get_research_topic
\* returns for the last messages.
get_research_topic_with_summary(summary, topic) ==
  IF NonBlank(summary)
    THEN IF NonBlank(topic)
           THEN Strip(<<"Conversation summary:", "\n">> \o Strip(summary)
                      \o <<"\n", "\n", "Recent conversation:", "\n">> \o topic)
           ELSE Strip(summary)
    ELSE topic

\* the state update {} of a node
NoUpdate ==
  [updated |-> FALSE, search_query |-> <<>>, web_research_result |-> <<>>,
   sources_gathered |-> <<>>, raised |-> FALSE]

\* kb_retrieve(state, config)
kb_retrieve(a) ==
  IF SearchProviderLower(a.search_provider) # "autorag" THEN NoUpdate
  ELSE LET topic == get_research_topic_with_summary(a.conversation_summary, a.topic)
           query == Strip(IF IsStr(topic) THEN topic ELSE <<>>)
       IN  IF query = <<>> THEN NoUpdate
           ELSE LET found == call_autorag_search(a.autorag_endpoint, a.autorag_id,
                                                 query, a.transport)
                IN  IF found.snippets = <<>> THEN NoUpdate
                    ELSE [updated |-> TRUE, search_query |-> <<query>>,
                          web_research_result |-> found.snippets,
                          sources_gathered |-> found.sources, raised |-> FALSE]

-----------------------------------------------------------------------------
(* The retriever specification: one call of kb_retrieve.                    *)

\* response bodies: empty, short, and one longer than the diagnostics keep
Bodies == {<<>>, <<"<html>">>, Filler(BODY_LIMIT + 1)}

RetrievedResults ==
  {r \in KbResults :
     /\ r.output = NoText /\ r.response = NoText /\ r.documents = NoList
     /\ r.results = NoList /\ r.pad = 0
     /\ r.sources \in {NoList, <<>>}}

Transports ==
  {Transport("ok", "0", TRUE, <<"{}">>, <<>>, TRUE, r) : r \in RetrievedResults}
  \cup {Transport("ok", "0", TRUE, b, <<>>, FALSE, WrappedResult) : b \in Bodies}
  \cup {Transport("http_error", c, rd, b, <<"HTTP Error">>, FALSE, WrappedResult) :
          c \in {"404", "500"}, rd \in BOOLEAN, b \in Bodies}
  \cup {Transport("failure", "0", FALSE, <<>>, e, FALSE, WrappedResult) :
          e \in {<<>>, <<"timed out">>}}

KbCalls ==
  [search_provider : {"autorag", "AutoRAG", "google"},
   autorag_endpoint : {<<>>, <<"https://kb">>},
   autorag_id : {<<WS>>, <<"kb1">>},
   conversation_summary : {NoText, <<"s">>},
   topic : {<<>>, <<WS>>, <<"q">>},
   transport : Transports]

CallKbRetrieve ==
  /\ call.fn = "kb_retrieve" /\ ~call.done
  /\ call' = Returned(kb_retrieve(call.arg))
  /\ UNCHANGED <<thread, turn, out>>

InitKb ==
  /\ call \in {Pending("kb_retrieve", a) : a \in KbCalls}
  /\ InitThread
  /\ turn = NoTurn
  /\ out = NoTurn

NextKb == CallKbRetrieve

SpecKb == InitKb /\ [][NextKb]_vars

\* the call reached the request: autorag provider, endpoint, rag id and query set
RetrievalAttempted ==
  /\ Called("kb_retrieve")
  /\ SearchProviderLower(call.arg.search_provider) = "autorag"
  /\ Strip(call.arg.autorag_endpoint) # <<>> /\ Strip(call.arg.autorag_id) # <<>>
  /\ Strip(get_research_topic_with_summary(call.arg.conversation_summary,
                                           call.arg.topic)) # <<>>

\* transport failure, HTTP error or a body that is not JSON
RetrievalFailed ==
  RetrievalAttempted /\ (call.arg.transport.kind # "ok" \/ ~call.arg.transport.json)

(* C13, as stated: after a transport failure, an HTTP error or a non-JSON   *)
(* body, kb_retrieve adds nothing to web_research_result or                 *)
(* sources_gathered.                                                        *)
C13_FailureAddsNothing ==
  RetrievalFailed => (~call.ret.updated /\ call.ret.web_research_result = <<>>
                      /\ call.ret.sources_gathered = <<>>)

(* C13, amended: a failed retrieval never raises; kb_retrieve stores the    *)
(* query and exactly one snippet, a diagnostic that starts with [AutoRAG]   *)
(* and keeps at most BODY_LIMIT characters of the body, and no sources.     *)
C13_FailureAddsOneDiagnostic ==
  RetrievalFailed =>
    /\ ~call.ret.raised /\ call.ret.updated
    /\ Len(call.ret.web_research_result) = 1
    /\ Head(call.ret.web_research_result[1]) = AUTORAG_TAG
    /\ call.arg.transport.kind # "failure" =>
         Len(call.ret.web_research_result[1]) <= 10 + BODY_LIMIT
    /\ call.ret.sources_gathered = <<>>
    /\ Len(call.ret.search_query) = 1

C13_Witness ==
  /\ RetrievalFailed /\ call.arg.transport.kind = "ok"
  /\ Len(call.arg.transport.body) > BODY_LIMIT
  /\ call.ret.updated /\ Len(call.ret.web_research_result[1]) = 10 + BODY_LIMIT


-----------------------------------------------------------------------------
\* a finalize_answer call of the OpenAI path has ended
OpenAICallEnded == turn.kind = "turn" /\ turn.provider = "openai" /\ out.kind # "none"

(* C14: for every outcome of the model call on the OpenAI path (any text,  *)
(* any tool calls, missing credentials, provider error, runtime exception) *)
(* finalize_answer returns a message whose text content is non-empty.      *)
C14_OpenAIReplyNeverEmpty ==
  OpenAICallEnded => (out.kind = "message" /\ NonBlank(out.content))


-----------------------------------------------------------------------------
(* C15: an exception inside one continuity rule (for instance a tool call  *)
(* whose arguments are not structured) is a no-op for that rule only: the  *)
(* later rules still run and the reply is not replaced by the error        *)
(* message of the runtime-exception handler.                               *)
C15_RuleExceptionIsLocal ==
  (OpenAICallEnded /\ turn.llm = "ok" /\ Sent) =>
    (~out.aborted /\ out.llm_error = "" /\ ~Contains(out.content, RUNTIME_ERROR_TEXT))


-----------------------------------------------------------------------------
(* C18: when the last user text holds a continuation keyword and a         *)
(* recommendation keyword and no production keyword, the outgoing message  *)
(* carries no tool calls, whatever the model proposed and whatever its     *)
(* reply text is.                                                          *)
C18_StoryRequestSendsNoToolCalls ==
  (OpenAICallEnded /\ Sent /\ is_story_suggestion_request(LastUserText(turn.messages)))
    => out.tool_calls = <<>>


-----------------------------------------------------------------------------
\* the lock gate discarded the tool calls of the last call: its confirmation prompt
\* is the reply, or is appended to the reply
LockPromptSent ==
  /\ Sent /\ out.tool_calls = <<>>
  /\ (Contains(out.content, LOCK_PROMPT_TEXT) \/ Contains(out.content, LOCK_PROMPT_SUFFIX))

\* a storyboard request with neither an explicit nor an implicit confirmation
UnconfirmedStoryboardTurn ==
  /\ turn.kind = "turn" /\ turn.provider = "openai" /\ turn.llm = "ok"
  /\ storyboard_intent(LastUserText(turn.messages))
  /\ ~ContainsAny(LastUserText(turn.messages), LOCK_CONFIRMATION_KEYWORDS)
  /\ ~ContainsAny(LastUserText(turn.messages), IMPLICIT_LOCK_KEYWORDS)

(* C19: every finalize_answer call counts one turn: the agent_loop_count it *)
(* returns is one more than the thread's, and the thread's counter grows by *)
(* exactly one with every call that returns.  On an unconfirmed storyboard  *)
(* turn (one that is not a request for story directions) the lock gate      *)
(* discards the tool calls while the counter is below hard_turn_cap and     *)
(* only then; once a call has returned a counter at or above the cap, no    *)
(* later call of the thread is answered by the gate.                        *)
C19_GateOpensAtTurnCap ==
  [][/\ out'.agent_loop_count = thread.agent_loop_count + 1
     /\ out'.kind = "message" => thread'.agent_loop_count = thread.agent_loop_count + 1
     /\ LockPromptSent' => (UnconfirmedStoryboardTurn
                            /\ out'.agent_loop_count < turn.hard_turn_cap)
     /\ (UnconfirmedStoryboardTurn /\ out'.agent_loop_count < turn.hard_turn_cap
         /\ ~is_story_suggestion_request(LastUserText(turn.messages))
         /\ out'.kind = "message")
          => LockPromptSent'
     /\ (out.kind # "none" /\ out.agent_loop_count >= turn.hard_turn_cap)
          => ~LockPromptSent']_vars

\* the gate answered the first turn and let the tool calls of the second through
C19_Witness ==
  /\ UnconfirmedStoryboardTurn /\ Sent
  /\ out.agent_loop_count = turn.hard_turn_cap /\ out.agent_loop_count > 1
  /\ thread.agent_loop_count = out.agent_loop_count
  /\ out.tool_calls # <<>>


-----------------------------------------------------------------------------
\* the new-character rule fired on the tool calls that passed the gates
NewCharacterRuleFired ==
  /\ OpenAICallEnded /\ turn.llm = "ok" /\ Sent /\ ~out.aborted
  /\ NewCharacterRuleFires(out.gated, LastUserText(turn.messages), turn.nodes)

(* C20: when the new-character rule fires, the outgoing tool calls are     *)
(* only createNode calls of the new character labels and runNode calls     *)
(* that target those labels; storyboard creation, video creation and       *)
(* connections are absent.                                                 *)
C20_OnlyCharacterCallsRemain ==
  NewCharacterRuleFired =>
    \A i \in 1..Len(out.tool_calls) :
      KeptForNewCharacter(out.tool_calls[i], NewCharacterLabels(out.gated, turn.nodes))


-----------------------------------------------------------------------------
\* the labels of the composeVideo nodes the outgoing list creates
FinalVideoLabels == CreatedLabels(out.tool_calls, {"composeVideo"})

\* the outgoing list creates a labelled image node and a labelled composeVideo node
CreatesImageAndVideo ==
  /\ OpenAICallEnded /\ Sent
  /\ CreatedLabels(out.tool_calls, {"image", "textToImage"}) # {}
  /\ FinalVideoLabels # {}

(* C21: whenever the final tool-call list creates at least one labelled    *)
(* image node and at least one labelled composeVideo node, it contains no  *)
(* runNode call whose nodeId is the label of a composeVideo node created   *)
(* in the same turn.                                                       *)
C21_NoPrematureVideoRun ==
  CreatesImageAndVideo =>
    \A i \in 1..Len(out.tool_calls) :
      ~(IsRun(out.tool_calls[i]) /\ IsStr(out.tool_calls[i].nodeId)
        /\ Strip(out.tool_calls[i].nodeId) \in FinalVideoLabels)


-----------------------------------------------------------------------------
\* the positions of the runNode calls of the outgoing list that target a label
RunsOf(label) ==
  {i \in 1..Len(out.tool_calls) :
     IsRun(out.tool_calls[i]) /\ out.tool_calls[i].nodeId = label}

(* C22: in the final tool-call list every createNode of an image-type node *)
(* (image or textToImage) with a non-empty label is targeted by exactly    *)
(* one runNode call whose nodeId is that label.                            *)
C22_ExactlyOneRunPerImage ==
  (OpenAICallEnded /\ Sent) =>
    \A i \in 1..Len(out.tool_calls) :
      (IsCreate(out.tool_calls[i]) /\ ~BadArgs(out.tool_calls[i])
       /\ out.tool_calls[i].type \in {"image", "textToImage"}
       /\ LabelOf(out.tool_calls[i]) # <<>>)
        => Cardinality(RunsOf(LabelOf(out.tool_calls[i]))) = 1


-----------------------------------------------------------------------------
\* the connections the reference-image wiring added to the outgoing list
AddedReferences == Positions("auto_ref")

\* the label of the storyboard node the rules of the turn worked on
TurnStoryboardLabel == storyboard_image_label(AtStoryboard)

IsCanvasImage(label) ==
  \E i \in 1..Len(turn.nodes) :
    IsSuccessfulImageNode(turn.nodes[i]) /\ Strip(turn.nodes[i].label) = label

(* C23: the reference-image wiring of a storyboard creation adds at most   *)
(* three connectNodes calls into the storyboard node, from pairwise        *)
(* distinct successful canvas image nodes other than the storyboard, never *)
(* repeating a (source, target) pair the model proposed; every added call  *)
(* sits after the storyboard's createNode and before its runNode.          *)
C23_ReferencesWiredBetweenCreateAndRun ==
  (OpenAICallEnded /\ Sent) =>
    /\ Cardinality(AddedReferences) <= MAX_REFERENCES
    /\ \A a \in AddedReferences :
         /\ IsConnect(FinalCalls[a])
         /\ FinalCalls[a].targetNodeId = TurnStoryboardLabel
         /\ FinalCalls[a].sourceNodeId # TurnStoryboardLabel
         /\ IsCanvasImage(FinalCalls[a].sourceNodeId)
         /\ <<FinalCalls[a].sourceNodeId, TurnStoryboardLabel>> \notin existing_pairs(out.gated)
         /\ \A b \in AddedReferences :
              FinalCalls[b].sourceNodeId = FinalCalls[a].sourceNodeId => b = a
         /\ \E c \in 1..(a - 1) :
              IsCreate(FinalCalls[c]) /\ LabelOf(FinalCalls[c]) = TurnStoryboardLabel
         /\ \A r \in 1..Len(FinalCalls) :
              TargetsRun(FinalCalls[r], TurnStoryboardLabel) => a < r


-----------------------------------------------------------------------------
\* the image the general reference wiring connects from
UpstreamLabel == pick_latest_success_image_label(turn.nodes)

\* the connections the general reference wiring added into a node
UpstreamInto(label) ==
  {a \in Positions("auto_ref_upstream") :
     FinalCalls[a].sourceNodeId = UpstreamLabel /\ FinalCalls[a].targetNodeId = label}

\* a created image node the wiring is about: labelled, not a storyboard grid, not the
\* upstream image, without an inbound connection among the calls of the model
NeedsReference(c) ==
  /\ IsImageCreate(c) /\ ~BadArgs(c) /\ LabelOf(c) # <<>>
  /\ LabelOf(c) # UpstreamLabel
  /\ ~ContainsAny(Hint(LabelOf(c), PromptOf(c)), GRID_KEYWORDS)
  /\ LabelOf(c) \notin existing_targets(out.gated)

(* C24: on a turn with reference intent, for every newly created           *)
(* non-storyboard image node with no inbound connection exactly one        *)
(* connectNodes call from the most recent successful canvas image to that  *)
(* node is added; it is placed before the runNode of the node if present   *)
(* and otherwise right after the createNode, never before the createNode.  *)
C24_OneUpstreamConnectionPerImage ==
  (OpenAICallEnded /\ Sent /\ reference_intent(LastUserText(turn.messages))
   /\ UpstreamLabel # <<>>) =>
    \A i \in 1..Len(FinalCalls) :
      NeedsReference(FinalCalls[i]) =>
        /\ Cardinality(UpstreamInto(LabelOf(FinalCalls[i]))) = 1
        /\ \A a \in UpstreamInto(LabelOf(FinalCalls[i])) :
             /\ \E c \in 1..(a - 1) :
                  IsCreate(FinalCalls[c]) /\ LabelOf(FinalCalls[c]) = LabelOf(FinalCalls[i])
             /\ \A r \in (i + 1)..Len(FinalCalls) :
                  TargetsRun(FinalCalls[r], LabelOf(FinalCalls[i])) => a < r


-----------------------------------------------------------------------------
\* the classifier answered: sanitize, with gore or violence flagged
ViolenceToSanitize ==
  /\ OpenAICallEnded /\ Sent /\ turn.llm = "ok" /\ turn.classifier.ok
  /\ turn.classifier.decision.should_sanitize
  /\ (turn.classifier.decision.gore \/ turn.classifier.decision.violence)

NoViolentTerm(text) ==
  IsStr(text) => \A k \in TableKeys(ViolentReplacements) : ~Contains(text, k)

(* C25: whenever the safety decision has should_sanitize and (gore or      *)
(* violence), the violence substitution table is applied to the reply text *)
(* and to the prompt of every pending createNode call with a config, and   *)
(* the violence negative-prompt tokens are present in each of those calls, *)
(* for every combination of the other safety flags.                        *)
C25_ViolenceSanitizedUnderEveryFlag ==
  ViolenceToSanitize =>
    /\ NoViolentTerm(out.content)
    /\ \A i \in 1..Len(FinalCalls) :
         (IsCreate(FinalCalls[i]) /\ ~BadArgs(FinalCalls[i]) /\ FinalCalls[i].cfgOk
          /\ \E j \in 1..Len(turn.calls) : turn.calls[j].id = FinalCalls[i].id)
           => /\ NoViolentTerm(FinalCalls[i].prompt)
              /\ IsStr(FinalCalls[i].negativePrompt)
              /\ Contains(FinalCalls[i].negativePrompt, VIOLENT_NEGATIVE)


-----------------------------------------------------------------------------
(* _call_openai_structured for every schema: the provider calls it makes    *)
(* and how it ends.                                                        *)

\* the schemas the fallback of lines 696-725 knows
FALLBACK_SCHEMAS == {"SearchQueryList", "Reflection", "RoleDecision"}

\* The retry made whenever the first answer does not validate.
ProviderCallsRetryingOnParse(r) ==
  IF ~r.client_ok THEN 0
  ELSE IF r.first.kind = "text" /\ r.first.json THEN 1
  ELSE 2

\* lines 659-692: the number of client.responses.create calls.  Without a client the
\* two `raise` statements of 660-661 and 679-680 come before any call; the retry sits
\* in the except block of the first call.
ProviderCalls(r) ==
  IF ~r.client_ok THEN 0
  ELSE IF r.first.kind # "raises" THEN 1
  ELSE 2

\* lines 693-726: "parsed" when model_validate_json accepts the text, "fallback" when
\* a minimal payload is built, "raised" for the ValueError of line 726
StructuredOutcome(schema, r) ==
  IF StructuredText(r).text.json THEN "parsed"
  ELSE IF schema \in FALLBACK_SCHEMAS THEN "fallback"
  ELSE "raised"

\* _call_openai_structured(model, prompt, schema_model)
call_openai_structured_any(a) ==
  [provider_calls |-> ProviderCalls(a.router),
   outcome |-> StructuredOutcome(a.schema, a.router),
   role |-> IF a.schema = "RoleDecision" THEN call_openai_structured(a.router, a.defaults)
            ELSE NoDecision]

-----------------------------------------------------------------------------
(* The structured-call specification: one call of _call_openai_structured.  *)

StructuredSchemas == FALLBACK_SCHEMAS \cup {"SafetyDecision"}

StructuredOutputs ==
  FailingOutputs \cup {RouterJson(RoleDecision("magician", "", FALSE, "rag"))}

StructuredCalls ==
  [schema : StructuredSchemas,
   router : [client_ok : BOOLEAN, first : StructuredOutputs, second : StructuredOutputs],
   defaults : {[allow_canvas_tools |-> TRUE, tool_tier |-> "none"]}]

CallOpenAIStructured ==
  /\ call.fn = "call_openai_structured" /\ ~call.done
  /\ call' = Returned(call_openai_structured_any(call.arg))
  /\ UNCHANGED <<thread, turn, out>>

InitStructured ==
  /\ call \in {Pending("call_openai_structured", a) : a \in StructuredCalls}
  /\ InitThread
  /\ turn = NoTurn
  /\ out = NoTurn

NextStructured == CallOpenAIStructured

SpecStructured == InitStructured /\ [][NextStructured]_vars

\* the schema-constrained call returned a text that does not validate
FirstAnswerUnparseable ==
  /\ Called("call_openai_structured") /\ call.arg.router.client_ok
  /\ call.arg.router.first.kind = "text" /\ ~call.arg.router.first.json

(* C26, as stated: at most two provider calls; the unconstrained retry is  *)
(* made exactly when the structured-output parsing of the first attempt    *)
(* fails; for SearchQueryList, Reflection and RoleDecision the call never  *)
(* raises.                                                                 *)
C26_RetryOnParseFailure ==
  Called("call_openai_structured") =>
    /\ call.ret.provider_calls <= 2
    /\ FirstAnswerUnparseable => call.ret.provider_calls = 2
    /\ call.arg.schema \in FALLBACK_SCHEMAS => call.ret.outcome # "raised"

(* C26, amended: at most two provider calls; the unconstrained retry is    *)
(* made exactly when there is a client and the schema-constrained call     *)
(* raises; a first answer that does not validate is not retried; without a *)
(* client no call is made.  For SearchQueryList, Reflection and            *)
(* RoleDecision the call never raises: it returns the parsed answer or the *)
(* minimal payload.  For any other schema it raises when no text validates.*)
C26_RetryOnlyWhenFirstCallRaises ==
  Called("call_openai_structured") =>
    /\ call.ret.provider_calls <= 2
    /\ call.ret.provider_calls = 2
         <=> (call.arg.router.client_ok /\ call.arg.router.first.kind = "raises")
    /\ call.ret.provider_calls = 0 <=> ~call.arg.router.client_ok
    /\ FirstAnswerUnparseable =>
         (call.ret.provider_calls = 1 /\ call.ret.outcome # "parsed")
    /\ call.arg.schema \in FALLBACK_SCHEMAS => call.ret.outcome \in {"parsed", "fallback"}
    /\ (call.arg.schema \notin FALLBACK_SCHEMAS /\ call.ret.outcome # "parsed")
         => call.ret.outcome = "raised"

C26_Witness ==
  /\ FirstAnswerUnparseable /\ call.arg.schema = "RoleDecision"
  /\ call.arg.router.second.json
  /\ call.ret.provider_calls = 1 /\ call.ret.outcome = "fallback"
  /\ call.ret.role.reason = "fallback_parse"


-----------------------------------------------------------------------------
(* summarize_memory: the summarizer that runs after the answer of a turn.  *)

\* tail_keep = 16
tail_keep == 16

\* trigger_chars = 120_000
trigger_chars == 120000

\* len(messages) < 40: the length of a thread that gets its first summary
first_summary_messages == 40

\* len(new_summary) > 2200
summary_clamp == 2200

\* return {}
NoSummaryUpdate == [updated |-> FALSE, conversation_summary |-> NoText]

\* the condition of lines 2475-2487 with the prior summary taken for absent
SummaryDueIgnoringPrior(messages, rendered_len, summary) ==
  /\ Len(messages) > tail_keep
  /\ rendered_len < trigger_chars => Len(messages) >= first_summary_messages

\* the early returns of lines 2475-2487, negated: the summarizer goes on to
\* build its prompt
SummaryDue(messages, rendered_len, summary) ==
  /\ Len(messages) > tail_keep
  /\ rendered_len < trigger_chars =>
       /\ ~NonBlank(summary)
       /\ Len(messages) >= first_summary_messages

\* messages[:-tail_keep]
OlderMessages(messages) ==
  SubSeq(messages, 1, IF Len(messages) > tail_keep THEN Len(messages) - tail_keep ELSE 0)

\* messages[-tail_keep:]
RecentMessages(messages) ==
  SubSeq(messages, IF Len(messages) > tail_keep THEN Len(messages) - tail_keep + 1 ELSE 1,
         Len(messages))

\* new_summary.strip(), clamped to 2200 characters
ClampedSummary(t) ==
  IF Len(Strip(t)) > summary_clamp THEN RStrip(Take(Strip(t), summary_clamp)) ELSE Strip(t)

\* summarize_memory(state, config); model is what the provider does with the
\* prompt: "no_client" (the client or the key is missing), "error" (the call
\* or its stream raises) or "text" with the text it answers
summarize_memory(state, rendered_len, model) ==
  IF ~SummaryDue(state.messages, rendered_len, state.conversation_summary)
  THEN [model_called |-> FALSE, older |-> <<>>, update |-> NoSummaryUpdate]
  ELSE IF model.kind = "no_client"
  THEN [model_called |-> FALSE, older |-> <<>>, update |-> NoSummaryUpdate]
  ELSE IF model.kind = "error" \/ Strip(model.text) = <<>>
  THEN [model_called |-> TRUE, older |-> OlderMessages(state.messages),
        update |-> NoSummaryUpdate]
  ELSE [model_called |-> TRUE, older |-> OlderMessages(state.messages),
        update |-> [updated |-> TRUE, conversation_summary |-> ClampedSummary(model.text)]]

-----------------------------------------------------------------------------
(* The memory specification: a thread that grows by one exchange per turn; *)
(* summarize_memory runs at the end of every turn.                         *)

\* the longest thread of the memory specification
MaxMessages == 44

ModelAnswers ==
  {[kind |-> "no_client", text |-> <<>>], [kind |-> "error", text |-> <<>>],
   [kind |-> "text", text |-> <<>>], [kind |-> "text", text |-> <<" ">>],
   [kind |-> "text", text |-> <<" ", "s", " ">>]}

\* len(format_messages_for_prompt(messages)): below or at the threshold
RenderedLengths == {trigger_chars - 1, trigger_chars}

\* the user's message and the answer of the turn are appended, and the
\* summarizer is scheduled
AnswerTurn ==
  /\ call.fn \in {"none", "summarize_memory"} /\ call.done
  /\ thread.kind = "memory"
  /\ Len(thread.messages) + 2 <= MaxMessages
  /\ \E rendered_len \in RenderedLengths : \E model \in ModelAnswers :
       LET n == Len(thread.messages)
           state == [thread EXCEPT !.messages = [i \in 1..(n + 2) |-> i]]
       IN /\ thread' = state
          /\ call' = Pending("summarize_memory",
                             [state |-> state, rendered_len |-> rendered_len, model |-> model])
  /\ UNCHANGED <<turn, out>>

\* summarize_memory runs; its update is merged into the state, and summarized
\* records the older messages handed to the call that wrote the summary
SummarizeMemory ==
  /\ call.fn = "summarize_memory" /\ ~call.done
  /\ LET r == summarize_memory(call.arg.state, call.arg.rendered_len, call.arg.model)
     IN /\ call' = Returned(r)
        /\ thread' = IF r.update.updated
                     THEN [thread EXCEPT !.conversation_summary = r.update.conversation_summary,
                                         !.summarized = r.older]
                     ELSE thread
  /\ UNCHANGED <<turn, out>>

InitMemory ==
  /\ call = NoCall
  /\ thread \in {[kind |-> "memory", messages |-> <<>>, conversation_summary |-> s,
                  summarized |-> <<>>] : s \in {NoText, <<" ">>}}
  /\ turn = NoTurn
  /\ out = NoTurn

NextMemory == AnswerTurn \/ SummarizeMemory

SpecMemory == InitMemory /\ [][NextMemory]_vars

\* the condition under which the claim lets the model be called
TriggerCondition ==
  /\ Len(call.arg.state.messages) > 16
  /\ \/ call.arg.rendered_len >= 120000
     \/ /\ ~NonBlank(call.arg.state.conversation_summary)
        /\ Len(call.arg.state.messages) >= 40

(* C27: summarize_memory calls the model only if the transcript has more   *)
(* than 16 messages and either the rendered transcript reaches 120000      *)
(* characters or there is no prior non-blank summary and at least 40       *)
(* messages; in every other case, and on a provider error or an empty      *)
(* model output, it returns no update and conversation_summary stays as it *)
(* was.                                                                    *)
C27_SummarizerTrigger ==
  Called("summarize_memory") =>
    /\ call.ret.model_called => TriggerCondition
    /\ (\/ ~TriggerCondition
        \/ call.arg.model.kind # "text"
        \/ call.arg.model.text = <<>>)
         => /\ call.ret.update = NoSummaryUpdate
            /\ thread.conversation_summary = call.arg.state.conversation_summary

\* a thread of 40 messages without a summary gets its first one from the model
C27_Witness ==
  /\ Called("summarize_memory")
  /\ call.arg.rendered_len < trigger_chars
  /\ call.ret.model_called /\ call.ret.update.updated
  /\ thread.conversation_summary = <<"s">>

\* the turns start when the summarizer of the turn before has returned
AtTurnStart == call.done

(* C30: at the start of every turn each message of the transcript is in    *)
(* the tail window of the last 16 messages or was among the older messages *)
(* given to the summarizer call that produced the stored summary.          *)
C30_EveryMessageRepresented ==
  AtTurnStart =>
    \A i \in 1..Len(thread.messages) :
      \/ \E j \in 1..Len(RecentMessages(thread.messages)) :
           RecentMessages(thread.messages)[j] = thread.messages[i]
      \/ \E j \in 1..Len(thread.summarized) : thread.summarized[j] = thread.messages[i]


-----------------------------------------------------------------------------
(* _collect_stream_text_and_tools: the collector of a streamed response.   *)

\* the events of the Responses API that the collector reads
ItemAdded(call_id, item_id, name) ==
  [type |-> "response.output_item.added", call_id |-> call_id, item_id |-> item_id,
   name |-> name, arguments |-> <<>>, delta |-> <<>>]

ItemDone(call_id, item_id, name, arguments) ==
  [type |-> "response.output_item.done", call_id |-> call_id, item_id |-> item_id,
   name |-> name, arguments |-> arguments, delta |-> <<>>]

ArgumentsDelta(item_id, delta) ==
  [type |-> "response.function_call_arguments.delta", call_id |-> "", item_id |-> item_id,
   name |-> "", arguments |-> <<>>, delta |-> delta]

ArgumentsDone(item_id, arguments) ==
  [type |-> "response.function_call_arguments.done", call_id |-> "", item_id |-> item_id,
   name |-> "", arguments |-> arguments, delta |-> <<>>]

TextDelta(delta) ==
  [type |-> "response.output_text.delta", call_id |-> "", item_id |-> "",
   name |-> "", arguments |-> <<>>, delta |-> delta]

\* d[k] = v on a dict kept as a function
DictSet(d, k, v) == [x \in DOMAIN d \cup {k} |-> IF x = k THEN v ELSE d[x]]

\* parts = [], tool_calls_by_id = {}, alias_to_call_id = {}; order is the
\* insertion order of tool_calls_by_id
NewCollector == [parts |-> <<>>, by_id |-> <<>>, order |-> <<>>, alias |-> <<>>]

\* alias_to_call_id.get(item_id, item_id), without the alias table
ResolveCallIdUnaliased(alias, item_id) == item_id

\* alias_to_call_id.get(item_id, item_id)
ResolveCallId(alias, item_id) == IF item_id \in DOMAIN alias THEN alias[item_id] ELSE item_id

\* tool_calls_by_id.get(call_id) or {"id": call_id, "name": name, "arguments": ""}
RecordOf(c, call_id, name) ==
  IF call_id \in DOMAIN c.by_id THEN c.by_id[call_id]
  ELSE [id |-> call_id, name |-> name, arguments |-> <<>>]

\* tool_calls_by_id[call_id] = record
StoreRecord(c, call_id, record) ==
  [c EXCEPT !.by_id = DictSet(c.by_id, call_id, record),
            !.order = IF call_id \in DOMAIN c.by_id THEN c.order ELSE Append(c.order, call_id)]

\* the body of the loop over the stream, for one chunk
CollectChunk(c, chunk) ==
  IF chunk.type \in {"response.output_item.added", "response.output_item.done"}
  THEN IF chunk.call_id = "" THEN c
       ELSE LET aliased == [c EXCEPT !.alias =
                              IF chunk.item_id # ""
                              THEN DictSet(DictSet(c.alias, chunk.call_id, chunk.call_id),
                                           chunk.item_id, chunk.call_id)
                              ELSE DictSet(c.alias, chunk.call_id, chunk.call_id)]
                record == RecordOf(c, chunk.call_id, chunk.name)
                named == IF chunk.name # "" THEN [record EXCEPT !.name = chunk.name] ELSE record
                filled == IF chunk.arguments # <<>>
                          THEN [named EXCEPT !.arguments = chunk.arguments] ELSE named
            IN StoreRecord(aliased, chunk.call_id, filled)
  ELSE IF chunk.type = "response.function_call_arguments.delta"
  THEN IF chunk.item_id = "" THEN c
       ELSE LET call_id == ResolveCallId(c.alias, chunk.item_id)
                record == RecordOf(c, call_id, "")
            IN StoreRecord(c, call_id,
                           [record EXCEPT !.arguments = record.arguments \o chunk.delta])
  ELSE IF chunk.type = "response.function_call_arguments.done"
  THEN IF chunk.item_id = "" THEN c
       ELSE LET call_id == ResolveCallId(c.alias, chunk.item_id)
                record == RecordOf(c, call_id, "")
            IN StoreRecord(c, call_id, [record EXCEPT !.arguments = chunk.arguments])
  ELSE IF chunk.type = "response.output_text.delta"
  THEN [c EXCEPT !.parts = c.parts \o chunk.delta]
  ELSE c

\* json.loads(args) if args.strip() else {}; the text itself when it does not
\* parse
ParseArguments(args) ==
  IF Strip(args) = <<>> THEN [json |-> TRUE, value |-> <<"{", "}">>]
  ELSE IF Head(Strip(args)) = "{" /\ Strip(args)[Len(Strip(args))] = "}" /\ Len(Strip(args)) > 1
  THEN [json |-> TRUE, value |-> Strip(args)]
  ELSE [json |-> FALSE, value |-> args]

RECURSIVE AssembleToolCalls(_, _)
\* the assembly of the result from tool_calls_by_id.values()
AssembleToolCalls(c, i) ==
  IF i > Len(c.order) THEN <<>>
  ELSE LET r == c.by_id[c.order[i]]
       IN (IF r.name = "" THEN <<>>
           ELSE <<[id |-> r.id, name |-> r.name, arguments |-> ParseArguments(r.arguments)]>>)
          \o AssembleToolCalls(c, i + 1)

-----------------------------------------------------------------------------
(* The stream specification: the events of two function calls and of the   *)
(* reply text arrive in any interleaving that keeps each one's own order.  *)

\* the events of one function call: the item, its argument deltas, and the
\* closing events where the provider sends them
CallScripts(call_id, item_id, name, mark) ==
  {<<ItemAdded(call_id, item_id, name)>>,
   <<ItemAdded(call_id, item_id, name), ArgumentsDelta(item_id, <<"{">>),
     ArgumentsDelta(item_id, <<mark>>)>>,
   <<ItemAdded(call_id, item_id, name), ArgumentsDelta(item_id, <<"{">>),
     ArgumentsDelta(item_id, <<mark, "}">>)>>,
   <<ItemAdded(call_id, item_id, name), ArgumentsDelta(item_id, <<"{", mark>>),
     ArgumentsDone(item_id, <<"{", mark, "}">>),
     ItemDone(call_id, item_id, name, <<"{", mark, "}">>)>>}

StreamScripts ==
  [a : CallScripts("call_a", "fc_a", "createNode", "a"),
   b : CallScripts("call_b", "fc_b", "runNode", "b"),
   t : {<<>>, <<TextDelta(<<"t">>)>>}]

StreamNames == {"a", "b", "t"}

\* one chunk of the stream is read; arrived keeps the order of arrival
StreamChunk ==
  /\ call.fn = "collect_stream_text_and_tools" /\ ~call.done
  /\ \E s \in StreamNames :
       /\ out.pos[s] < Len(call.arg[s])
       /\ out' = [out EXCEPT !.pos[s] = @ + 1, !.arrived = Append(@, s),
                             !.collector = CollectChunk(@, call.arg[s][out.pos[s] + 1])]
  /\ UNCHANGED <<call, thread, turn>>

\* the stream is exhausted and the result is assembled
StreamEnd ==
  /\ call.fn = "collect_stream_text_and_tools" /\ ~call.done
  /\ \A s \in StreamNames : out.pos[s] = Len(call.arg[s])
  /\ call' = Returned([raised |-> FALSE, text |-> out.collector.parts,
                       tool_calls |-> AssembleToolCalls(out.collector, 1)])
  /\ UNCHANGED <<out, thread, turn>>

\* the stream raises before its end: the result is assembled from what was read
StreamRaises ==
  /\ call.fn = "collect_stream_text_and_tools" /\ ~call.done
  /\ \E s \in StreamNames : out.pos[s] < Len(call.arg[s])
  /\ call' = Returned([raised |-> TRUE, text |-> out.collector.parts,
                       tool_calls |-> AssembleToolCalls(out.collector, 1)])
  /\ UNCHANGED <<out, thread, turn>>

InitStream ==
  /\ call \in {Pending("collect_stream_text_and_tools", s) : s \in StreamScripts}
  /\ out = [kind |-> "stream", pos |-> [s \in StreamNames |-> 0], arrived |-> <<>>,
           collector |-> NewCollector]
  /\ InitThread
  /\ turn = NoTurn

NextStream == StreamChunk \/ StreamEnd \/ StreamRaises

SpecStream == InitStream /\ [][NextStream]_vars

RECURSIVE DeltasOf(_, _)
\* the argument deltas of a script, concatenated in arrival order
DeltasOf(script, i) ==
  IF i > Len(script) THEN <<>>
  ELSE (IF script[i].type = "response.function_call_arguments.delta"
        THEN script[i].delta ELSE <<>>) \o DeltasOf(script, i + 1)

\* the arguments of a done event of the script, where it has one
HasDone(script) ==
  \E i \in 1..Len(script) : script[i].type = "response.function_call_arguments.done"

FinalArguments(script) ==
  IF HasDone(script)
  THEN (CHOOSE e \in {script[i] : i \in 1..Len(script)} :
          e.type = "response.function_call_arguments.done").arguments
  ELSE DeltasOf(script, 1)

\* the tool call that the claim expects for a script
ExpectedToolCall(script) ==
  [id |-> script[1].call_id, name |-> script[1].name,
   arguments |-> ParseArguments(FinalArguments(script))]

StreamCompleted == Called("collect_stream_text_and_tools") /\ ~call.ret.raised

(* C28: whatever the interleaving of the events of the function calls, the *)
(* collector returns exactly one tool call per call id, with the call id,  *)
(* the name of the item, and the call's own deltas concatenated in arrival *)
(* order (the final arguments when a done event came) as arguments; no     *)
(* delta is attributed to another call.                                    *)
C28_OneToolCallPerCallId ==
  StreamCompleted =>
    /\ Len(call.ret.tool_calls) = 2
    /\ \A s \in {"a", "b"} :
         \E i \in 1..Len(call.ret.tool_calls) :
           call.ret.tool_calls[i] = ExpectedToolCall(call.arg[s])

\* the events of the two calls arrived in alternation, b's item first, a's
\* deltas between b's delta and b's done events
C28_Witness ==
  /\ StreamCompleted
  /\ out.arrived = <<"b", "a", "b", "a", "b", "a", "b">>
  /\ call.ret.tool_calls[1].id = "call_b"
  /\ call.ret.tool_calls[2].arguments = [json |-> TRUE, value |-> <<"{", "a", "}">>]


\* the allow-list of the turn's active role
ActiveAllowList == AllowedTools(resolve_role(turn.active_role))

(* C29: every tool call of the outgoing message of finalize_answer, be it  *)
(* proposed by the model or synthesized by a continuity rule, has a name   *)
(* in the allow-list of the turn's active role; for a role with an empty   *)
(* allow-list the outgoing list is empty.                                  *)
C29_OutgoingCallsAllowed ==
  (turn.kind = "turn" /\ Sent) =>
    /\ \A i \in 1..Len(out.tool_calls) : out.tool_calls[i].name \in ActiveAllowList
    /\ ActiveAllowList = {} => out.tool_calls = <<>>

\* a turn whose outgoing list carries a synthesized call next to the model's
C29_Witness ==
  /\ turn.kind = "turn" /\ Sent
  /\ \E i \in 1..Len(out.tool_calls) :
       \A j \in 1..Len(turn.calls) : turn.calls[j].id # out.tool_calls[i].id
  /\ \E i \in 1..Len(out.tool_calls) :
       \E j \in 1..Len(turn.calls) : turn.calls[j].id = out.tool_calls[i].id

====
